---- MODULE Spec2Model ----
(***************************************************************************)
(* A model of the latex2mmlc converter: the lexer (lexer.rs), the          *)
(* recursive-descent parser with its arena and node lists (parse.rs,       *)
(* arena.rs), the command table (token.rs) and the entry point             *)
(* latex_to_mathml (lib.rs).                                               *)
(*                                                                         *)
(* A source string is a sequence of code points, each a one-character      *)
(* string; NUL stands for U+0000.  Offsets are byte offsets as produced    *)
(* by CharIndices.  Slices (&str) are sequences of code points.            *)
(***************************************************************************)
EXTENDS Integers, Sequences, FiniteSets, TLC

VARIABLES input, pc, result, display, pretty, output

vars == <<input, pc, result, display, pretty, output>>

----------------------------------------------------------------------------
(* Bounds of the model.                                                    *)

MaxFrags == 3

----------------------------------------------------------------------------
(* Code points and their classes (the is_ascii tests of char).            *)

NUL == "NUL"

Digits == {"0", "1", "2", "3", "4", "5", "6", "7", "8", "9"}

LowerAlpha == {"a", "b", "c", "d", "e", "f", "g", "h", "i", "j", "k", "l", "m",
               "n", "o", "p", "q", "r", "s", "t", "u", "v", "w", "x", "y", "z"}

UpperAlpha == {"A", "B", "C", "D", "E", "F", "G", "H", "I", "J", "K", "L", "M",
               "N", "O", "P", "Q", "R", "S", "T", "U", "V", "W", "X", "Y", "Z"}

AsciiPunct == {"!", "\"", "#", "$", "%", "&", "'", "(", ")", "*", "+", ",", "-",
               ".", "/", ":", ";", "<", "=", ">", "?", "@", "[", "\\", "]", "^",
               "_", "{", "|", "}", "~"}

is_ascii_whitespace(c) == c \in {" ", "\t", "\n", "\f", "\r"}

is_ascii_digit(c) == c \in Digits

is_ascii_alphabetic(c) == c \in LowerAlpha \cup UpperAlpha

is_ascii_graphic(c) == c \in Digits \cup LowerAlpha \cup UpperAlpha \cup AsciiPunct

is_ascii(c) == is_ascii_graphic(c) \/ is_ascii_whitespace(c) \/ c = NUL

(* Length of the UTF-8 encoding: the non-ASCII code points the model uses  *)
(* (such as U+221E) are in the three-byte range.                           *)
Utf8Len(c) == IF is_ascii(c) THEN 1 ELSE 3

RECURSIVE ByteLen(_)
ByteLen(s) == IF s = <<>> THEN 0 ELSE Utf8Len(Head(s)) + ByteLen(Tail(s))

Min(a, b) == IF a < b THEN a ELSE b

(* `let v = ...;` followed by the rest of the block.                       *)
Let(v, Rest(_)) == Rest(v)

(* `let r = ...?;`: an Err is returned at once, an Ok is handed on.        *)
Try(r, Rest(_)) == IF r.ok THEN Rest(r) ELSE r

(* s[from..to) by code-point index (0-based, end exclusive).               *)
Slice(s, from, to) == IF to <= from THEN <<>> ELSE SubSeq(s, from + 1, to)

----------------------------------------------------------------------------
(* Tokens: kind, payload (a slice, a code point or an attribute) and the   *)
(* byte offset the lexer attaches.                                         *)

Tok(k, v, loc) == [k |-> k, v |-> v, loc |-> loc]

NoLoc == 0 - 1

(* ops.rs constants are written as the code point itself.                  *)
FULL_STOP == "."
COMMA == ","
NULL_OP == "NULLOP"
PRIME == "PRIME"
LEFT_PARENTHESIS == "("
RIGHT_PARENTHESIS == ")"
LEFT_SQUARE_BRACKET == "["
RIGHT_SQUARE_BRACKET == "]"
LEFT_CURLY_BRACKET == "{"
RIGHT_CURLY_BRACKET == "}"
VERTICAL_LINE == "|"
NOT_LESS_THAN == "U+226E"
NOT_GREATER_THAN == "U+226F"

----------------------------------------------------------------------------
(* The command table.  Names are the text after the backslash.             *)

(* Command names of the table (token.rs), by name.                         *)
Chars ==
    [sqrt |-> <<"s", "q", "r", "t">>,
     frac |-> <<"f", "r", "a", "c">>,
     tfrac |-> <<"t", "f", "r", "a", "c">>,
     dfrac |-> <<"d", "f", "r", "a", "c">>,
     binom |-> <<"b", "i", "n", "o", "m">>,
     left |-> <<"l", "e", "f", "t">>,
     right |-> <<"r", "i", "g", "h", "t">>,
     middle |-> <<"m", "i", "d", "d", "l", "e">>,
     begin |-> <<"b", "e", "g", "i", "n">>,
     end |-> <<"e", "n", "d">>,
     int |-> <<"i", "n", "t">>,
     sum |-> <<"s", "u", "m">>,
     lim |-> <<"l", "i", "m">>,
     slashed |-> <<"s", "l", "a", "s", "h", "e", "d">>,
     times |-> <<"t", "i", "m", "e", "s">>,
     alpha |-> <<"a", "l", "p", "h", "a">>,
     infty |-> <<"i", "n", "f", "t", "y">>,
     in |-> <<"i", "n">>,
     mathrm |-> <<"m", "a", "t", "h", "r", "m">>,
     mathit |-> <<"m", "a", "t", "h", "i", "t">>,
     mathbf |-> <<"m", "a", "t", "h", "b", "f">>]
Chars_limits == <<"l", "i", "m", "i", "t", "s">>
Chars_not == <<"n", "o", "t">>

ISIN == "U+2208"
EQUALS_SIGN == "="
PLUS_SIGN == "+"

(* `\limits` is not in the table of token.rs; its token is the one the     *)
(* parser matches (Token::Limits).                                         *)
LimitsCommand(loc) == Tok("Limits", <<>>, loc)

from_command(command, loc) ==
    CASE command = Chars.mathrm -> Tok("NormalVariant", <<>>, loc)
      [] command = Chars.mathit -> Tok("Transform", <<"Italic">>, loc)
      [] command = Chars.mathbf -> Tok("Transform", <<"Bold">>, loc)
      [] command = Chars.sqrt -> Tok("Sqrt", <<>>, loc)
      [] command = Chars.frac -> Tok("Frac", <<"None">>, loc)
      [] command = Chars.tfrac -> Tok("Frac", <<"False">>, loc)
      [] command = Chars.dfrac -> Tok("Frac", <<"True">>, loc)
      [] command = Chars.binom -> Tok("Binom", <<"None">>, loc)
      [] command = Chars.left -> Tok("Left", <<>>, loc)
      [] command = Chars.right -> Tok("Right", <<>>, loc)
      [] command = Chars.middle -> Tok("Middle", <<>>, loc)
      [] command = Chars.begin -> Tok("Begin", <<>>, loc)
      [] command = Chars.end -> Tok("End", <<>>, loc)
      [] command = <<"\\">> -> Tok("NewLine", <<>>, loc)
      [] command = <<",">> -> Tok("Space", <<"0.1667">>, loc)
      [] command = <<" ">> -> Tok("Space", <<"1">>, loc)
      [] command = <<"{">> -> Tok("Paren", <<LEFT_CURLY_BRACKET>>, loc)
      [] command = <<"}">> -> Tok("Paren", <<RIGHT_CURLY_BRACKET>>, loc)
      [] command = Chars.lim -> Tok("Lim", <<"lim">>, loc)
      [] command = Chars.int -> Tok("Integral", <<"U+222B">>, loc)
      [] command = Chars.sum -> Tok("BigOp", <<"U+2211">>, loc)
      [] command = Chars.times -> Tok("Operator", <<"U+00D7">>, loc)
      [] command = Chars.alpha -> Tok("Letter", <<"U+03B1">>, loc)
      [] command = Chars.infty -> Tok("NormalLetter", <<"U+221E">>, loc)
      [] command = Chars.slashed -> Tok("Slashed", <<>>, loc)
      [] command = Chars.in -> Tok("Operator", <<ISIN>>, loc)
      [] command = Chars_limits -> LimitsCommand(loc)
      [] OTHER -> Tok("UnknownCommand", command, loc)

(* `\not` is not in the table of token.rs either; its token is the one the *)
(* parser matches (Token::Not).                                            *)
NotCommand(loc) == Tok("Not", <<>>, loc)

(* commands.rs: the table of token.rs, and the commands the parser has     *)
(* arms for that the table lacks.                                          *)
get_command(command, loc) ==
    IF command = Chars_not THEN NotCommand(loc) ELSE from_command(command, loc)

(* get_negated_op: the lookup table of canonical negated forms; "None" is  *)
(* Option::None.                                                           *)
get_negated_op(op) ==
    CASE op = EQUALS_SIGN -> "U+2260"
      [] op = ISIN -> "U+2209"
      [] OTHER -> "None"

acts_on_no_digit(tok) == FALSE

(* acts_on_a_digit of token.rs names the font transforms Style(_); the     *)
(* parser calls the same tokens Transform(_).                              *)
acts_on_a_digit(tok) == tok.k \in {"Sqrt", "Frac", "Binom", "Transform"}

(* TextTransform::transform for Bold and Italic on the ASCII letters and   *)
(* digits: a code point in one of the ranges moves to the styled block     *)
(* (written variant:c), any other code point is returned as it is.         *)
TextTransform_transform(tf, c) ==
    CASE tf = "Bold" /\ c \in UpperAlpha \cup LowerAlpha \cup Digits -> "Bold:" \o c
      [] tf = "Italic" /\ c \in UpperAlpha \cup LowerAlpha -> "Italic:" \o c
      [] OTHER -> c

----------------------------------------------------------------------------
(* The lexer.  Its state: the source, the code-point index of `peek`, and  *)
(* the text_mode flag.  peek.1 is PeekCh, peek.0 is PeekLoc.               *)

NewLexer(src) == [src |-> src, pos |-> 0, text_mode |-> FALSE]

PeekCh(l) == IF l.pos < Len(l.src) THEN l.src[l.pos + 1] ELSE NUL

PeekLoc(l) == ByteLen(SubSeq(l.src, 1, l.pos))

(* read_char: the caller reads PeekLoc/PeekCh of l, the lexer moves on.    *)
read_char(l) == [l EXCEPT !.pos = Min(l.pos + 1, Len(l.src))]

NonZeroNewAny(n) == n

(* NonZero::<usize>::new *)
NonZeroNew(n) == IF n = 0 THEN NoLoc ELSE n

RECURSIVE SkipLoop(_, _)
SkipLoop(l, skipped) ==
    IF is_ascii_whitespace(PeekCh(l))
    THEN SkipLoop(read_char(l), NonZeroNew(PeekLoc(l)))
    ELSE [l |-> l, skipped |-> skipped]

SkipNothing(l) == [l |-> l, skipped |-> NoLoc]

skip_whitespace(l) == SkipLoop(l, NoLoc)

RECURSIVE ReadAlpha(_)
ReadAlpha(l) == IF is_ascii_alphabetic(PeekCh(l)) THEN ReadAlpha(read_char(l)) ELSE l

read_command(l) ==
    Let(ReadAlpha(l), LAMBDA l1 :
    Let(IF l1.pos = l.pos THEN read_char(l1) ELSE l1, LAMBDA l2 :
        [l |-> l2, name |-> Slice(l.src, l.pos, l2.pos)]))

Punctuation_dot_only(c) == IF c = FULL_STOP THEN "Dot" ELSE "None"

Punctuation_from_char(c) ==
    CASE c = FULL_STOP -> "Dot"
      [] c = "," -> "Comma"
      [] OTHER -> "None"

StopsBeforeNever(next, candidate) == FALSE

(* The candidate just read is punctuation and the next code point is not a *)
(* digit: the punctuation is not included in the number.                   *)
StopsBefore(next, candidate) ==
    ~is_ascii_digit(next) /\ Punctuation_from_char(candidate) # "None"

RECURSIVE ReadNumberLoop(_, _)
ReadNumberLoop(l, start) ==
    Let(PeekCh(l), LAMBDA cur :
    IF is_ascii_digit(cur) \/ Punctuation_from_char(cur) # "None"
    THEN Let(l.pos, LAMBDA index_before :
         Let(cur, LAMBDA candidate :
         Let(read_char(l), LAMBDA l1 :
            IF StopsBefore(PeekCh(l1), candidate)
            THEN [l |-> l1,
                  tok |-> Tok(IF Punctuation_from_char(candidate) = "Dot"
                              THEN "NumberWithDot" ELSE "NumberWithComma",
                              Slice(l.src, start, index_before),
                              ByteLen(SubSeq(l.src, 1, start)))]
            ELSE ReadNumberLoop(l1, start))))
    ELSE [l |-> l, tok |-> Tok("Number", Slice(l.src, start, l.pos),
                               ByteLen(SubSeq(l.src, 1, start)))])

read_number(l, start) == ReadNumberLoop(l, start)

(* The match on the code point just read (lexer.rs, next_token).  l is the *)
(* lexer after the read, idx the index of ch, loc its byte offset.         *)
Dispatch(l, idx, loc, ch) ==
    CASE ch = "=" -> [l |-> l, tok |-> Tok("Operator", <<EQUALS_SIGN>>, loc)]
      [] ch = ";" -> [l |-> l, tok |-> Tok("Operator", <<";">>, loc)]
      [] ch = "," -> [l |-> l, tok |-> Tok("Operator", <<COMMA>>, loc)]
      [] ch = "'" -> [l |-> l, tok |-> Tok("Prime", <<>>, loc)]
      [] ch = "(" -> [l |-> l, tok |-> Tok("Paren", <<LEFT_PARENTHESIS>>, loc)]
      [] ch = ")" -> [l |-> l, tok |-> Tok("Paren", <<RIGHT_PARENTHESIS>>, loc)]
      [] ch = "{" -> [l |-> l, tok |-> Tok("GroupBegin", <<>>, loc)]
      [] ch = "}" -> [l |-> l, tok |-> Tok("GroupEnd", <<>>, loc)]
      [] ch = "[" -> [l |-> l, tok |-> Tok("Paren", <<LEFT_SQUARE_BRACKET>>, loc)]
      [] ch = "]" -> [l |-> l, tok |-> Tok("SquareBracketClose", <<>>, loc)]
      [] ch = "|" -> [l |-> l, tok |-> Tok("Paren", <<VERTICAL_LINE>>, loc)]
      [] ch = "+" -> [l |-> l, tok |-> Tok("Operator", <<PLUS_SIGN>>, loc)]
      [] ch = "-" -> [l |-> l, tok |-> Tok("Operator", <<"U+2212">>, loc)]
      [] ch = "*" -> [l |-> l, tok |-> Tok("Operator", <<"*">>, loc)]
      [] ch = "!" -> [l |-> l, tok |-> Tok("Operator", <<"!">>, loc)]
      [] ch = "<" -> [l |-> l, tok |-> Tok("OpLessThan", <<>>, loc)]
      [] ch = ">" -> [l |-> l, tok |-> Tok("OpGreaterThan", <<>>, loc)]
      [] ch = "_" -> [l |-> l, tok |-> Tok("Underscore", <<>>, loc)]
      [] ch = "^" -> [l |-> l, tok |-> Tok("Circumflex", <<>>, loc)]
      [] ch = "&" -> [l |-> l, tok |-> Tok("Ampersand", <<>>, loc)]
      [] ch = "~" -> [l |-> l, tok |-> Tok("NonBreakingSpace", <<>>, loc)]
      [] ch = NUL -> [l |-> l, tok |-> Tok("EOF", <<>>, loc)]
      [] ch = ":" -> [l |-> l, tok |-> Tok("Colon", <<>>, loc)]
      [] ch = " " -> [l |-> l, tok |-> Tok("Letter", <<"U+00A0">>, loc)]
      [] ch = "\\" ->
            Let(read_command(l), LAMBDA rc :
                [l |-> IF l.text_mode THEN skip_whitespace(rc.l).l ELSE rc.l,
                 tok |-> get_command(rc.name, loc)])
      [] OTHER ->
            IF is_ascii_digit(ch) THEN read_number(l, idx)
            ELSE IF is_ascii_graphic(ch) THEN [l |-> l, tok |-> Tok("Letter", <<ch>>, loc)]
            ELSE [l |-> l, tok |-> Tok("NormalLetter", <<ch>>, loc)]

(* Lexer::next_token *)
Lexer_next_token(l0, wants_digit) ==
    Let(skip_whitespace(l0), LAMBDA sk :
    Let(sk.l, LAMBDA l :
       IF sk.skipped # NoLoc /\ l.text_mode
       THEN [l |-> l, tok |-> Tok("Whitespace", <<>>, sk.skipped)]
       ELSE IF wants_digit /\ is_ascii_digit(PeekCh(l))
       THEN Let(read_char(l), LAMBDA l1 :
                [l |-> l1, tok |-> Tok("Number", Slice(l.src, l.pos, l1.pos), PeekLoc(l))])
       ELSE Dispatch(read_char(l), l.pos, PeekLoc(l), PeekCh(l))))

(* Lexer::read_text_content.  slice is meaningful when some is TRUE.       *)
RECURSIVE ReadTextLoop(_, _, _)
ReadTextLoop(l, start, brace_count) ==
    Let(l.pos, LAMBDA end :
    Let(PeekCh(l), LAMBDA cur :
    Let(read_char(l), LAMBDA l1 :
    Let(CASE cur = "{" -> brace_count + 1
          [] cur = "}" -> brace_count - 1
          [] OTHER -> brace_count, LAMBDA count :
       IF count <= 0 THEN [l |-> l1, some |-> TRUE, slice |-> Slice(l.src, start, end)]
       ELSE IF cur = "\\" /\ PeekCh(l1) \notin {"{", "}"}
       THEN [l |-> read_char(l1), some |-> FALSE, slice |-> <<>>]
       ELSE IF cur = NUL THEN [l |-> l1, some |-> FALSE, slice |-> <<>>]
       ELSE ReadTextLoop(IF cur = "\\" THEN read_char(l1) ELSE l1, start, count)))))

read_text_content(l) == ReadTextLoop(l, l.pos, 1)

----------------------------------------------------------------------------
(* The arena and its intrusive node lists (arena.rs).  A NodeReference is  *)
(* a 0-based index, NoRef is Option::None.                                 *)

NoRef == 0 - 1

(* A node: its variant, its string payload (slice, code point, width),     *)
(* its child references in field order, its node list (Row, PseudoRow,     *)
(* Table) and its attributes.                                              *)
NoList == [head |-> NoRef, tail |-> NoRef]

MkNode(t, s, kids, list, attr) ==
    [t |-> t, s |-> s, kids |-> kids, list |-> list, attr |-> attr, sref |-> <<>>]

(* Node::MultiLetterIdent(StrReference) *)
MultiLetterIdent(sref) == [MkNode("MultiLetterIdent", <<>>, <<>>, NoList, <<>>)
                             EXCEPT !.sref = sref]

Leaf(t, s, attr) == MkNode(t, s, <<>>, NoList, attr)

Inner(t, s, kids, attr) == MkNode(t, s, kids, NoList, attr)

ListNode(t, list, attr) == MkNode(t, <<>>, <<>>, list, attr)

ArenaPushOffByOne(arena, node) ==
    [arena |-> Append(arena, [node |-> node, next |-> NoRef]), ref |-> Len(arena) + 1]

(* Arena::push: the new arena and the reference returned.                  *)
Arena_push(arena, node) ==
    [arena |-> Append(arena, [node |-> node, next |-> NoRef]), ref |-> Len(arena)]

Arena_get(arena, ref) == arena[ref + 1].node

PushRefKeepTail(list, arena, node_ref) ==
    IF list.head = NoRef
    THEN [list |-> [head |-> node_ref, tail |-> node_ref], arena |-> arena]
    ELSE [list |-> list, arena |-> [arena EXCEPT ![list.tail + 1].next = node_ref]]

(* NodeList::push_ref *)
push_ref(list, arena, node_ref) ==
    IF list.head = NoRef
    THEN [list |-> [head |-> node_ref, tail |-> node_ref], arena |-> arena]
    ELSE [list |-> [list EXCEPT !.tail = node_ref],
          arena |-> [arena EXCEPT ![list.tail + 1].next = node_ref]]

(* NodeList::push *)
NodeList_push(list, arena, node) ==
    Let(Arena_push(arena, node), LAMBDA a : push_ref(list, a.arena, a.ref))

is_empty(list) == list.head = NoRef

is_singleton(list) ==
    IF list.head # NoRef /\ list.head = list.tail THEN list.head ELSE NoRef

BufferPushStrFromZero(buffer, string) ==
    [buffer |-> buffer \o string, ref |-> <<0, Len(string)>>]

(* Buffer::push_str / Buffer::extend *)
Buffer_push_str(buffer, string) ==
    [buffer |-> buffer \o string,
     ref |-> <<Len(buffer), Len(buffer) + Len(string)>>]

----------------------------------------------------------------------------
(* Errors (LatexError) and results.                                        *)

NoTok == Tok("None", <<>>, NoLoc)

LatexError(e, got, a, b) == [e |-> e, got |-> got, a |-> a, b |-> b]

NoError == LatexError("None", NoTok, <<>>, <<>>)

Ok(p, v) == [ok |-> TRUE, p |-> p, v |-> v, err |-> NoError]

Err(p, e) == [ok |-> FALSE, p |-> p, v |-> NoRef, err |-> e]

CannotBeUsedHere(got, correct_place) ==
    LatexError("CannotBeUsedHere", got, <<correct_place>>, <<>>)

UnexpectedToken(expected, got) == LatexError("UnexpectedToken", got, <<expected>>, <<>>)

MissingParenthesis(location, got) ==
    LatexError("MissingParenthesis", got, <<location>>, <<>>)

UnexpectedClose(got) == LatexError("UnexpectedClose", got, <<>>, <<>>)

UnclosedGroup(end_kind) == LatexError("UnclosedGroup", NoTok, <<end_kind>>, <<>>)

UnexpectedEOF == LatexError("UnexpectedEOF", NoTok, <<>>, <<>>)

UnknownCommand(name) == LatexError("UnknownCommand", NoTok, name, <<>>)

UnknownEnvironment(name) == LatexError("UnknownEnvironment", NoTok, name, <<>>)

MismatchedEnvironment(expected, got) ==
    LatexError("MismatchedEnvironment", NoTok, expected, got)

----------------------------------------------------------------------------
(* The parser (parse.rs).  Its state p: the lexer l, the lookahead         *)
(* peek_token, the arena, the buffer; calls records every call to the      *)
(* lexer (the peek token replaced, the wants_digit flag passed, the lexer   *)
(* position before and after the call and the token returned).             *)

(* Parser::next_token: the previous peek token is returned.                *)
Parser_next_token(p) ==
    Let(acts_on_a_digit(p.peek_token), LAMBDA wants :
    Let(Lexer_next_token(p.l, wants), LAMBDA r :
        [p |-> [p EXCEPT !.l = r.l, !.peek_token = r.tok,
                         !.calls = Append(@, [prev |-> p.peek_token, wants |-> wants,
                                              pos |-> p.l.pos, tok |-> r.tok,
                                              after |-> r.l.pos])],
         tok |-> p.peek_token]))

(* Parser::new *)
NewParser(l) ==
    Parser_next_token([l |-> l, peek_token |-> Tok("EOF", <<>>, NoLoc),
                       arena |-> <<>>, buffer |-> <<>>, calls |-> <<>>]).p

(* Parser::new_node_ref followed by Ok(..) *)
OkNode(p, node) ==
    Let(Arena_push(p.arena, node), LAMBDA a : Ok([p EXCEPT !.arena = a.arena], a.ref))

(* Parser::squeeze *)
squeeze(p, list, style) ==
    IF is_singleton(list) # NoRef THEN Ok(p, is_singleton(list))
    ELSE OkNode(p, ListNode("Row", list, style))

(* Parser::check_lbrace *)
check_lbrace(p) ==
    IF p.peek_token.k # "GroupBegin"
    THEN Let(Parser_next_token(p), LAMBDA n :
             Err(n.p, UnexpectedToken("GroupBegin", n.tok)))
    ELSE Ok(p, NoRef)

(* Parser::parse_text_group *)
parse_text_group(p) ==
    Let(read_text_content(p.l), LAMBDA rt :
    Let(Parser_next_token([p EXCEPT !.l = rt.l]), LAMBDA n :
        IF rt.some THEN Ok(n.p, rt.slice) ELSE Err(n.p, UnclosedGroup("GroupEnd"))))

(* Token::is_same_kind against the closing token of a group.               *)
is_same_kind(tok, end_kind) == tok.k = end_kind

FenceDelimiterLenient(tok) ==
    CASE tok.k = "Paren" -> tok.v[1]
      [] tok.k = "SquareBracketClose" -> RIGHT_SQUARE_BRACKET
      [] OTHER -> NULL_OP

(* The delimiter accepted after `\left` and after `\right` (the match on   *)
(* self.next_token() in the Token::Left arm); "Missing" is the error arm.  *)
FenceDelimiter(tok) ==
    CASE tok.k = "Paren" -> tok.v[1]
      [] tok.k = "SquareBracketClose" -> RIGHT_SQUARE_BRACKET
      [] tok.k = "Operator" /\ tok.v = <<FULL_STOP>> -> NULL_OP
      [] OTHER -> "Missing"

(* The environment names of the Token::Begin arm.                          *)
(* The environment names the Token::Begin arm knows.                       *)
Env ==
    [align |-> <<"a", "l", "i", "g", "n">>,
     align_star |-> <<"a", "l", "i", "g", "n", "*">>,
     aligned |-> <<"a", "l", "i", "g", "n", "e", "d">>,
     cases |-> <<"c", "a", "s", "e", "s">>,
     matrix |-> <<"m", "a", "t", "r", "i", "x">>,
     pmatrix |-> <<"p", "m", "a", "t", "r", "i", "x">>,
     bmatrix |-> <<"b", "m", "a", "t", "r", "i", "x">>,
     vmatrix |-> <<"v", "m", "a", "t", "r", "i", "x">>]

(* The match on the environment name: the table alignment and the fences,  *)
(* or "Unknown".                                                           *)
EnvironmentKind(environment) ==
    CASE environment \in {Env.align, Env.align_star, Env.aligned} ->
            [align |-> "Alternating", fenced |-> FALSE, open |-> NULL_OP, close |-> NULL_OP]
      [] environment = Env.cases ->
            [align |-> "Left", fenced |-> TRUE, open |-> LEFT_CURLY_BRACKET, close |-> NULL_OP]
      [] environment = Env.matrix ->
            [align |-> "Center", fenced |-> FALSE, open |-> NULL_OP, close |-> NULL_OP]
      [] environment = Env.pmatrix ->
            [align |-> "Center", fenced |-> TRUE,
             open |-> LEFT_PARENTHESIS, close |-> RIGHT_PARENTHESIS]
      [] environment = Env.bmatrix ->
            [align |-> "Center", fenced |-> TRUE,
             open |-> LEFT_SQUARE_BRACKET, close |-> RIGHT_SQUARE_BRACKET]
      [] environment = Env.vmatrix ->
            [align |-> "Center", fenced |-> TRUE,
             open |-> VERTICAL_LINE, close |-> VERTICAL_LINE]
      [] OTHER -> [align |-> "Unknown", fenced |-> FALSE, open |-> NULL_OP, close |-> NULL_OP]

EndNameNeverDiffers(end_name, environment) == FALSE

(* `end_name != environment` *)
EndNameDiffers(end_name, environment) == end_name # environment

StrayScriptErrorSwapped(cur_token) ==
    IF cur_token.k = "Limits"
    THEN UnexpectedToken("BigOp", cur_token)
    ELSE UnexpectedClose(cur_token)

(* The arms of parse_single_node for `^`, `'` and `\limits` met where a    *)
(* node is expected.                                                       *)
StrayScriptError(cur_token) ==
    IF cur_token.k = "Limits"
    THEN CannotBeUsedHere(cur_token, "after \\int, \\sum, ...")
    ELSE CannotBeUsedHere(cur_token, "after an identifier or operator")

(* get_sub_or_sub: the tokens rejected right after `_` or `^`.             *)
ScriptOperandRejected(next_token) ==
    next_token.k \in {"Underscore", "Circumflex", "Prime"}

SecondScriptAccepted(first_underscore, second_underscore, second_circumflex) == FALSE

(* get_bounds: a second script of the kind already given.                  *)
SecondScriptRejected(first_underscore, second_underscore, second_circumflex) ==
    (~first_underscore /\ second_circumflex) \/ (first_underscore /\ second_underscore)

OrderAsWritten(first_underscore, first_bound, second_bound) ==
    [sub |-> first_bound, sup |-> second_bound]

(* get_bounds: "Depending on whether the underscore or the circumflex came *)
(* first, we have to swap the bounds."                                     *)
OrderBounds(first_underscore, first_bound, second_bound) ==
    IF first_underscore
    THEN [sub |-> first_bound, sup |-> second_bound]
    ELSE [sub |-> second_bound, sup |-> first_bound]

(* The four-way match on Bounds(sub, sup) with the node variants of the    *)
(* caller: (both, sub only, sup only); none leaves `plain`.                *)
BoundsNode(bounds, target, both, subonly, suponly, plain) ==
    CASE bounds.sub # NoRef /\ bounds.sup # NoRef ->
            Inner(both, <<>>, <<target, bounds.sub, bounds.sup>>, <<>>)
      [] bounds.sub # NoRef /\ bounds.sup = NoRef ->
            Inner(subonly, <<>>, <<target, bounds.sub>>, <<>>)
      [] bounds.sub = NoRef /\ bounds.sup # NoRef ->
            Inner(suponly, <<>>, <<target, bounds.sup>>, <<>>)
      [] OTHER -> plain

RECURSIVE parse_node(_, _), parse_single_node(_, _), GroupLoop(_, _, _)
RECURSIVE get_bounds(_), get_sub_or_sub(_), PrimeLoop(_, _)

ParseTokenSkipping(p) ==
    Let(Parser_next_token(Parser_next_token(p).p), LAMBDA n : parse_node(n.p, n.tok))

(* Parser::parse_token *)
parse_token(p) == Let(Parser_next_token(p), LAMBDA n : parse_node(n.p, n.tok))

(* Parser::parse_single_token *)
parse_single_token(p) ==
    Let(Parser_next_token(p), LAMBDA n : parse_single_node(n.p, n.tok))

(* Parser::parse_group: v is the list built.                               *)
GroupLoop(p, end_kind, nodes) ==
    IF is_same_kind(p.peek_token, end_kind) THEN Ok(p, nodes)
    ELSE Let(Parser_next_token(p), LAMBDA n :
         IF n.tok.k = "EOF" THEN Err(n.p, UnclosedGroup(end_kind))
         ELSE Try(parse_node(n.p, n.tok), LAMBDA r :
              Let(push_ref(nodes, r.p.arena, r.v), LAMBDA pr :
                  GroupLoop([r.p EXCEPT !.arena = pr.arena], end_kind, pr.list))))

parse_group(p, end_kind) == GroupLoop(p, end_kind, NoList)

(* Parser::parse_table: v is the Table node.                               *)
parse_table(p, align) ==
    Try(parse_group(p, "End"), LAMBDA g :
        Ok(Parser_next_token(g.p).p, ListNode("Table", g.v, <<align>>)))

(* Parser::parse_node *)
parse_node(p, cur_token) ==
    Try(parse_single_node(p, cur_token), LAMBDA left :
    Try(get_bounds(left.p), LAMBDA b :
        IF b.v.sub = NoRef /\ b.v.sup = NoRef THEN Ok(b.p, left.v)
        ELSE OkNode(b.p, BoundsNode(b.v, left.v, "SubSup", "Subscript", "Superscript",
                                    Leaf("None", <<>>, <<>>)))))

(* The prime loop of get_bounds.                                           *)
PrimeLoop(p, primes) ==
    IF p.peek_token.k = "Prime"
    THEN Let(Parser_next_token(p), LAMBDA n :
         Let(NodeList_push(primes, n.p.arena, Leaf("Operator", <<PRIME>>, <<>>)),
             LAMBDA pr : PrimeLoop([n.p EXCEPT !.arena = pr.arena], pr.list)))
    ELSE [p |-> p, primes |-> primes]

(* Parser::get_sub_or_sub *)
get_sub_or_sub(p) ==
    Let(Parser_next_token(p), LAMBDA n1 :
    Let(Parser_next_token(n1.p), LAMBDA n2 :
        IF ScriptOperandRejected(n2.tok)
        THEN Err(n2.p, CannotBeUsedHere(n2.tok, "after an identifier or operator"))
        ELSE parse_single_node(n2.p, n2.tok)))

(* The tail of get_bounds: the primes are put in front of the superscript. *)
WithPrimes(p, primes, bounds) ==
    IF ~is_empty(primes)
    THEN Let(IF bounds.sup # NoRef THEN push_ref(primes, p.arena, bounds.sup)
             ELSE [list |-> primes, arena |-> p.arena], LAMBDA pr :
         Let(squeeze([p EXCEPT !.arena = pr.arena], pr.list, <<>>), LAMBDA sq :
             Ok(sq.p, [sub |-> bounds.sub, sup |-> sq.v])))
    ELSE Ok(p, bounds)

(* get_bounds after the first bound fb.                                    *)
SecondBound(fb, primes, first_underscore) ==
    Let(fb.p.peek_token.k = "Underscore", LAMBDA second_underscore :
    Let(fb.p.peek_token.k = "Circumflex", LAMBDA second_circumflex :
        IF SecondScriptRejected(first_underscore, second_underscore, second_circumflex)
        THEN Let(Parser_next_token(fb.p), LAMBDA n :
                 Err(n.p, CannotBeUsedHere(n.tok, "after an identifier or operator")))
        ELSE IF (first_underscore /\ second_circumflex)
                \/ (~first_underscore /\ second_underscore)
        THEN Try(get_sub_or_sub(fb.p), LAMBDA sb :
                 WithPrimes(sb.p, primes, OrderBounds(first_underscore, fb.v, sb.v)))
        ELSE IF first_underscore
        THEN WithPrimes(fb.p, primes, [sub |-> fb.v, sup |-> NoRef])
        ELSE WithPrimes(fb.p, primes, [sub |-> NoRef, sup |-> fb.v])))

(* Parser::get_bounds: v is Bounds(sub, sup).                              *)
get_bounds(p0) ==
    Let(PrimeLoop(p0, NoList), LAMBDA pl :
    Let(pl.p.peek_token.k = "Underscore", LAMBDA first_underscore :
        IF first_underscore \/ pl.p.peek_token.k = "Circumflex"
        THEN Try(get_sub_or_sub(pl.p), LAMBDA fb :
                 SecondBound(fb, pl.primes, first_underscore))
        ELSE WithPrimes(pl.p, pl.primes, [sub |-> NoRef, sup |-> NoRef])))

(* The arms of parse_single_node that read further tokens.                 *)

ArmNumberWithPunctuation(p, cur_token) ==
    Let(IF cur_token.k = "NumberWithDot" THEN FULL_STOP ELSE COMMA, LAMBDA op :
    Let(NodeList_push(NoList, p.arena, Leaf("Number", cur_token.v, <<>>)), LAMBDA b1 :
    Let(NodeList_push(b1.list, b1.arena, Leaf("Operator", <<op>>, <<>>)), LAMBDA b2 :
        OkNode([p EXCEPT !.arena = b2.arena], ListNode("PseudoRow", b2.list, <<>>)))))

ArmSqrt(p) ==
    Let(Parser_next_token(p), LAMBDA n :
    IF n.tok.k = "Paren" /\ n.tok.v[1] = LEFT_SQUARE_BRACKET
    THEN Try(parse_group(n.p, "SquareBracketClose"), LAMBDA degree :
         Try(parse_token(Parser_next_token(degree.p).p), LAMBDA content :
         Let(squeeze(content.p, degree.v, <<>>), LAMBDA sq :
             OkNode(sq.p, Inner("Root", <<>>, <<sq.v, content.v>>, <<>>)))))
    ELSE Try(parse_node(n.p, n.tok), LAMBDA content :
             OkNode(content.p, Inner("Sqrt", <<>>, <<content.v>>, <<>>))))

ArmFracBinom(p, cur_token) ==
    Try(parse_token(p), LAMBDA numerator :
    Try(parse_token(numerator.p), LAMBDA denominator :
        IF cur_token.k = "Binom"
        THEN Let(OkNode(denominator.p,
                        Inner("Frac", <<"0">>, <<numerator.v, denominator.v>>,
                              cur_token.v)), LAMBDA inner :
                 OkNode(inner.p, Inner("Fenced", <<LEFT_PARENTHESIS, RIGHT_PARENTHESIS>>,
                                       <<inner.v>>, <<>>)))
        ELSE OkNode(denominator.p,
                    Inner("Frac", <<>>, <<numerator.v, denominator.v>>, cur_token.v))))

ArmBigOp(p, cur_token) ==
    Let(p.peek_token.k = "Limits", LAMBDA limits :
    Let(OkNode(IF limits THEN Parser_next_token(p).p ELSE p,
               Leaf("Operator", cur_token.v,
                    IF limits THEN <<"NoMovableLimits">> ELSE <<>>)), LAMBDA target :
    Try(get_bounds(target.p), LAMBDA b :
        OkNode(b.p, BoundsNode(b.v, target.v, "UnderOver", "Underset", "Overset",
                               Leaf("Operator", cur_token.v, <<>>))))))

ArmLim(p, cur_token) ==
    Let(Buffer_push_str(p.buffer, cur_token.v), LAMBDA bs :
    Let([p EXCEPT !.buffer = bs.buffer], LAMBDA p1 :
    Let(MultiLetterIdent(bs.ref), LAMBDA lim :
        IF p1.peek_token.k = "Underscore"
        THEN Try(parse_single_token(Parser_next_token(p1).p), LAMBDA under :
             Let(OkNode(under.p, lim), LAMBDA target :
                 OkNode(target.p, Inner("Underset", <<>>, <<target.v, under.v>>, <<>>))))
        ELSE OkNode(p1, lim))))

ArmIntegral(p, cur_token) ==
    Let(p.peek_token.k = "Limits", LAMBDA limits :
    Let(OkNode(IF limits THEN Parser_next_token(p).p ELSE p,
               Leaf("Operator", cur_token.v, <<>>)), LAMBDA target :
    Try(get_bounds(target.p), LAMBDA b :
        IF limits
        THEN OkNode(b.p, BoundsNode(b.v, target.v, "UnderOver", "Underset", "Overset",
                                    Leaf("Operator", cur_token.v, <<>>)))
        ELSE OkNode(b.p, BoundsNode(b.v, target.v, "SubSup", "Subscript", "Superscript",
                                    Leaf("Operator", cur_token.v, <<>>))))))

ArmSlashed(p) ==
    Try(parse_token(Parser_next_token(p).p), LAMBDA node :
        OkNode(Parser_next_token(node.p).p, Inner("Slashed", <<>>, <<node.v>>, <<>>)))

ArmColon(p) ==
    IF p.peek_token.k = "Operator" /\ p.peek_token.v[1] \in {"=", "U+2261"}
    THEN Let(Parser_next_token(p), LAMBDA n :
         Let(NodeList_push(NoList, n.p.arena,
                           Leaf("OperatorWithSpacing", <<":">>, <<"FourMu", "Zero">>)),
             LAMBDA b1 :
         Let(NodeList_push(b1.list, b1.arena,
                           Leaf("OperatorWithSpacing", n.tok.v, <<"Zero", "None">>)),
             LAMBDA b2 :
             OkNode([n.p EXCEPT !.arena = b2.arena],
                    ListNode("PseudoRow", b2.list, <<>>)))))
    ELSE OkNode(p, Leaf("OperatorWithSpacing", <<":">>, <<"FourMu", "FourMu">>))

ArmGroupBegin(p) ==
    Try(parse_group(p, "GroupEnd"), LAMBDA content :
        squeeze(Parser_next_token(content.p).p, content.v, <<>>))

ArmLeft(p) ==
    Let(Parser_next_token(p), LAMBDA n :
    Let(FenceDelimiter(n.tok), LAMBDA open :
        IF open = "Missing" THEN Err(n.p, MissingParenthesis("Left", n.tok))
        ELSE Try(parse_group(n.p, "Right"), LAMBDA content :
             Let(Parser_next_token(Parser_next_token(content.p).p), LAMBDA n2 :
             Let(FenceDelimiter(n2.tok), LAMBDA close :
                 IF close = "Missing"
                 THEN Err(n2.p, MissingParenthesis("Right", n2.tok))
                 ELSE Let(squeeze(n2.p, content.v, <<>>), LAMBDA sq :
                          OkNode(sq.p, Inner("Fenced", <<open, close>>,
                                             <<sq.v>>, <<>>))))))))

ArmMiddle(p) ==
    Let(Parser_next_token(p), LAMBDA n :
        CASE n.tok.k \in {"Operator", "Paren"} ->
                OkNode(n.p, Leaf("Operator", <<n.tok.v[1]>>, <<"StretchyTrue">>))
          [] n.tok.k = "SquareBracketClose" ->
                OkNode(n.p, Leaf("Operator", <<RIGHT_SQUARE_BRACKET>>, <<"StretchyTrue">>))
          [] OTHER -> Err(n.p, UnexpectedToken("Operator", n.tok)))

(* The Token::Begin arm after the table: the fences, then `\end{name}`.    *)
EndEnvironment(content, kind, environment) ==
    Let(IF kind.fenced
        THEN Let(OkNode(content.p, content.v), LAMBDA inner :
                 [p |-> inner.p,
                  node |-> Inner("Fenced", <<kind.open, kind.close>>, <<inner.v>>, <<>>)])
        ELSE [p |-> content.p, node |-> content.v], LAMBDA made :
    Try(check_lbrace(made.p), LAMBDA lb2 :
    Try(parse_text_group(lb2.p), LAMBDA end_name :
        IF EndNameDiffers(end_name.v, environment)
        THEN Err(end_name.p, MismatchedEnvironment(environment, end_name.v))
        ELSE OkNode(end_name.p, made.node))))

ArmBegin(p) ==
    Try(check_lbrace(p), LAMBDA lb :
    Try(parse_text_group(lb.p), LAMBDA environment :
    Let(EnvironmentKind(environment.v), LAMBDA kind :
        IF kind.align = "Unknown"
        THEN Err(environment.p, UnknownEnvironment(environment.v))
        ELSE Try(parse_table(environment.p, kind.align), LAMBDA content :
                 EndEnvironment(content, kind, environment.v)))))

(* node_ref.as_node_mut(arena): the node behind a reference is replaced.   *)
Arena_set(arena, ref, node) == [arena EXCEPT ![ref + 1].node = node]

(* Parser::set_normal_variant; EachNormal is its loop over a Row.          *)
RECURSIVE set_normal_variant(_, _), EachNormal(_, _, _)
set_normal_variant(arena, node_ref) ==
    Let(Arena_get(arena, node_ref), LAMBDA node :
    CASE node.t = "SingleLetterIdent" ->
            Arena_set(arena, node_ref, [node EXCEPT !.attr = <<"Normal">>])
      [] node.t = "Row" -> EachNormal(arena, node.list.head, Len(arena))
      [] OTHER -> arena)

EachNormal(arena, cur, fuel) ==
    IF cur = NoRef \/ fuel = 0 THEN arena
    ELSE EachNormal(set_normal_variant(arena, cur), arena[cur + 1].next, fuel - 1)

(* Parser::transform_letters; EachTransformed is its loop over a Row.      *)
RECURSIVE transform_letters(_, _, _), EachTransformed(_, _, _, _)
transform_letters(arena, node_ref, tf) ==
    Let(Arena_get(arena, node_ref), LAMBDA node :
    CASE node.t = "SingleLetterIdent" ->
            Arena_set(arena, node_ref,
                      [node EXCEPT !.s = <<TextTransform_transform(tf, node.s[1])>>])
      [] node.t = "Operator" ->
            Arena_set(arena, node_ref,
                      Leaf("SingleLetterIdent",
                           <<TextTransform_transform(tf, node.s[1])>>, <<>>))
      [] node.t = "Row" -> EachTransformed(arena, node.list.head, tf, Len(arena))
      [] OTHER -> arena)

EachTransformed(arena, cur, tf, fuel) ==
    IF cur = NoRef \/ fuel = 0 THEN arena
    ELSE EachTransformed(transform_letters(arena, cur, tf), arena[cur + 1].next, tf,
                         fuel - 1)

NoCollector == [start |-> NoRef, node_ref |-> NoRef, only_one_char |-> TRUE]

(* LetterCollector::finish followed by list_builder.push_ref: a run of     *)
(* more than one letter turns its first node into a MultiLetterIdent.      *)
CommitCollector(st, collector) ==
    IF collector.node_ref = NoRef THEN st
    ELSE Let(IF collector.only_one_char THEN st.arena
             ELSE Arena_set(st.arena, collector.node_ref,
                            MultiLetterIdent(<<collector.start, Len(st.buffer)>>)),
             LAMBDA arena :
         Let(push_ref(st.list, arena, collector.node_ref), LAMBDA pr :
             [st EXCEPT !.arena = pr.arena, !.list = pr.list]))

SetEndSkipped(list, arena) == arena

(* list_builder.set_end: the last node of the list has no successor.       *)
set_end(list, arena) ==
    IF list.tail = NoRef THEN arena ELSE [arena EXCEPT ![list.tail + 1].next = NoRef]

(* The loop of merge_single_letters over the nodes of a Row.               *)
RECURSIVE MergeLoop(_, _, _, _)
MergeLoop(st, cur, collector, fuel) ==
    IF cur = NoRef \/ fuel = 0 THEN CommitCollector(st, collector)
    ELSE Let(Arena_get(st.arena, cur), LAMBDA node :
         Let(st.arena[cur + 1].next, LAMBDA nxt :
            IF node.t = "SingleLetterIdent"
            THEN MergeLoop([st EXCEPT !.buffer = Append(@, node.s[1])], nxt,
                           IF collector.node_ref # NoRef
                           THEN [collector EXCEPT !.only_one_char = FALSE]
                           ELSE [start |-> Len(st.buffer), node_ref |-> cur,
                                 only_one_char |-> TRUE],
                           fuel - 1)
            ELSE Let(CommitCollector(st, collector), LAMBDA st1 :
                 Let(push_ref(st1.list, st1.arena, cur), LAMBDA pr :
                     MergeLoop([st1 EXCEPT !.arena = pr.arena, !.list = pr.list], nxt,
                               NoCollector, fuel - 1)))))

(* Parser::merge_single_letters *)
merge_single_letters(p, nodes, style) ==
    Let(MergeLoop([arena |-> p.arena, buffer |-> p.buffer, list |-> NoList],
                  nodes.head, NoCollector, Len(p.arena)), LAMBDA st :
        squeeze([p EXCEPT !.arena = set_end(st.list, st.arena), !.buffer = st.buffer],
                st.list, style))

(* The Token::NormalVariant arm (`\mathrm`).                               *)
ArmNormalVariant(p) ==
    Try(parse_single_token(p), LAMBDA r :
    Let(Arena_get(r.p.arena, r.v), LAMBDA node :
    Let(IF node.t = "Row" THEN merge_single_letters(r.p, node.list, node.attr)
        ELSE Ok(r.p, r.v), LAMBDA m :
        Ok([m.p EXCEPT !.arena = set_normal_variant(m.p.arena, m.v)], m.v))))

(* The Token::Transform arm (`\mathbf`, `\mathit`, ...).                   *)
ArmTransform(p, cur_token) ==
    Try(parse_single_token(p), LAMBDA r :
    Let([r.p EXCEPT !.arena = transform_letters(r.p.arena, r.v, cur_token.v[1])],
        LAMBDA p1 :
    Let(Arena_get(p1.arena, r.v), LAMBDA node :
        IF node.t = "Row" THEN merge_single_letters(p1, node.list, node.attr)
        ELSE Ok(p1, r.v))))

(* The Token::Not arm: the match on the peek token.                        *)
ArmNot(p, cur_token) ==
    Let(p.peek_token, LAMBDA peek :
    CASE peek.k = "Operator" ->
            Let(Parser_next_token(p), LAMBDA n :
                IF get_negated_op(peek.v[1]) # "None"
                THEN OkNode(n.p, Leaf("Operator", <<get_negated_op(peek.v[1])>>, <<>>))
                ELSE OkNode(n.p, Leaf("Operator", peek.v, <<>>)))
      [] peek.k = "OpLessThan" ->
            Let(Parser_next_token(p), LAMBDA n :
                OkNode(n.p, Leaf("Operator", <<NOT_LESS_THAN>>, <<>>)))
      [] peek.k = "OpGreaterThan" ->
            Let(Parser_next_token(p), LAMBDA n :
                OkNode(n.p, Leaf("Operator", <<NOT_GREATER_THAN>>, <<>>)))
      [] peek.k \in {"Letter", "NormalLetter"} ->
            Let(Parser_next_token(p), LAMBDA n :
            Let(Buffer_push_str(n.p.buffer, <<peek.v[1], "U+0338">>), LAMBDA b :
                OkNode([n.p EXCEPT !.buffer = b.buffer], MultiLetterIdent(b.ref))))
      [] OTHER -> Err(p, CannotBeUsedHere(cur_token, "before supported operators")))

ArmUnderscore(p) ==
    Try(parse_single_token(p), LAMBDA sub :
    Try(parse_single_token(sub.p), LAMBDA base :
        OkNode(base.p, Inner("Multiscript", <<>>, <<base.v, sub.v>>, <<>>))))

(* Parser::parse_single_node *)
parse_single_node(p, cur_token) ==
    Let(cur_token.k, LAMBDA k :
    CASE k = "Number" -> OkNode(p, Leaf("Number", cur_token.v, <<>>))
      [] k \in {"NumberWithDot", "NumberWithComma"} -> ArmNumberWithPunctuation(p, cur_token)
      [] k = "Letter" -> OkNode(p, Leaf("SingleLetterIdent", cur_token.v, <<>>))
      [] k = "NormalLetter" -> OkNode(p, Leaf("SingleLetterIdent", cur_token.v, <<"Normal">>))
      [] k = "Operator" -> OkNode(p, Leaf("Operator", cur_token.v, <<>>))
      [] k = "OpGreaterThan" -> OkNode(p, Leaf("OpGreaterThan", <<>>, <<>>))
      [] k = "OpLessThan" -> OkNode(p, Leaf("OpLessThan", <<>>, <<>>))
      [] k = "Space" -> OkNode(p, Leaf("Space", cur_token.v, <<>>))
      [] k = "NonBreakingSpace" -> OkNode(p, Leaf("Text", <<"U+00A0">>, <<>>))
      [] k = "Sqrt" -> ArmSqrt(p)
      [] k \in {"Frac", "Binom"} -> ArmFracBinom(p, cur_token)
      [] k = "BigOp" -> ArmBigOp(p, cur_token)
      [] k = "Lim" -> ArmLim(p, cur_token)
      [] k = "Slashed" -> ArmSlashed(p)
      [] k = "Not" -> ArmNot(p, cur_token)
      [] k = "NormalVariant" -> ArmNormalVariant(p)
      [] k = "Transform" -> ArmTransform(p, cur_token)
      [] k = "Integral" -> ArmIntegral(p, cur_token)
      [] k = "Colon" -> ArmColon(p)
      [] k = "GroupBegin" -> ArmGroupBegin(p)
      [] k = "Paren" -> OkNode(p, Leaf("Operator", <<cur_token.v[1]>>, <<"StretchyFalse">>))
      [] k = "SquareBracketClose" ->
            OkNode(p, Leaf("Operator", <<RIGHT_SQUARE_BRACKET>>, <<"StretchyFalse">>))
      [] k = "Left" -> ArmLeft(p)
      [] k = "Middle" -> ArmMiddle(p)
      [] k = "Begin" -> ArmBegin(p)
      [] k = "Ampersand" -> OkNode(p, Leaf("ColumnSeparator", <<>>, <<>>))
      [] k = "NewLine" -> OkNode(p, Leaf("RowSeparator", <<>>, <<>>))
      [] k = "UnknownCommand" -> Err(p, UnknownCommand(cur_token.v))
      [] k \in {"Circumflex", "Prime"} -> Err(p, StrayScriptError(cur_token))
      [] k = "Underscore" -> ArmUnderscore(p)
      [] k = "Limits" -> Err(p, StrayScriptError(cur_token))
      [] k = "EOF" -> Err(p, UnexpectedEOF)
      [] k \in {"End", "Right", "GroupEnd"} -> Err(p, UnexpectedClose(cur_token)))

(* Parser::parse: v is the root node PseudoRow(list).                      *)
RECURSIVE ParseLoop(_, _, _)
ParseLoop(p, cur_token, list) ==
    IF cur_token.k = "EOF" THEN Ok(p, ListNode("PseudoRow", list, <<>>))
    ELSE Try(parse_node(p, cur_token), LAMBDA node :
         Let(push_ref(list, node.p.arena, node.v), LAMBDA pr :
         Let(Parser_next_token([node.p EXCEPT !.arena = pr.arena]), LAMBDA n :
             ParseLoop(n.p, n.tok, pr.list))))

Parser_parse(p) ==
    Let(Parser_next_token(p), LAMBDA n : ParseLoop(n.p, n.tok, NoList))

(* get_nodes of lib.rs *)
get_nodes(latex) == Parser_parse(NewParser(NewLexer(latex)))

----------------------------------------------------------------------------
(* Reading a tree out of the arena: NodeListIterator follows `next` from   *)
(* the head until None.                                                    *)

RECURSIVE ListRefs(_, _, _)
ListRefs(arena, ref, fuel) ==
    IF ref = NoRef \/ fuel = 0 THEN <<>>
    ELSE <<ref>> \o ListRefs(arena, arena[ref + 1].next, fuel - 1)

NodeList_iter(arena, list) == ListRefs(arena, list.head, Len(arena))

RECURSIVE Tree(_, _, _)
Tree(arena, buffer, node) ==
    Let(NodeList_iter(arena, node.list), LAMBDA items :
       [t |-> node.t, s |-> node.s, attr |-> node.attr,
        str |-> IF node.sref = <<>> THEN <<>>
                ELSE Slice(buffer, node.sref[1], node.sref[2]),
        kids |-> [i \in 1..Len(node.kids) |->
                     Tree(arena, buffer, Arena_get(arena, node.kids[i]))],
        items |-> [i \in 1..Len(items) |->
                     Tree(arena, buffer, Arena_get(arena, items[i]))]])

(* The tree of a parse result (of get_nodes); errors have no tree.         *)
Ast(r) == IF r.ok THEN Tree(r.p.arena, r.p.buffer, r.v) ELSE <<>>

----------------------------------------------------------------------------
(* The emitter (Node::emit): one opening piece, the payload, the children  *)
(* and one closing piece per node; PseudoRow writes its children only.     *)

ElementOf(t) ==
    CASE t = "Number" -> "mn"
      [] t \in {"SingleLetterIdent", "MultiLetterIdent"} -> "mi"
      [] t \in {"Operator", "OperatorWithSpacing", "OpLessThan", "OpGreaterThan"} -> "mo"
      [] t = "Space" -> "mspace"
      [] t = "Text" -> "mtext"
      [] t = "Subscript" -> "msub"
      [] t = "Superscript" -> "msup"
      [] t = "SubSup" -> "msubsup"
      [] t = "Multiscript" -> "mmultiscripts"
      [] t = "Underset" -> "munder"
      [] t = "Overset" -> "mover"
      [] t = "UnderOver" -> "munderover"
      [] t = "Sqrt" -> "msqrt"
      [] t = "Root" -> "mroot"
      [] t = "Frac" -> "mfrac"
      [] t = "Table" -> "mtable"
      [] OTHER -> "mrow"

RECURSIVE EmitTree(_), EmitAll(_)
EmitAll(trees) ==
    IF trees = <<>> THEN <<>> ELSE EmitTree(Head(trees)) \o EmitAll(Tail(trees))

EmitTree(tree) ==
    IF tree.t = "PseudoRow" THEN EmitAll(tree.items)
    ELSE <<"<", ElementOf(tree.t), ">">> \o tree.s \o tree.str
         \o EmitAll(tree.kids) \o EmitAll(tree.items)
         \o <<"</", ElementOf(tree.t), ">">>

----------------------------------------------------------------------------
(* latex_to_mathml (lib.rs).                                               *)

Displays == {"Block", "Inline"}

MathOpenSame(d) == "<math>"

(* The opening written for the display mode.                               *)
MathOpen(d) == IF d = "Block" THEN "<math display=\"block\">" ELSE "<math>"

MathClose == "</math>"

NoResult == [ok |-> FALSE, p |-> <<>>, v |-> NoRef, err |-> NoError]

(* get_nodes(alloc, latex) *)
GetNodes ==
    /\ pc = "start"
    /\ result' = get_nodes(input)
    /\ pc' = "parsed"
    /\ UNCHANGED <<input, display, pretty, output>>

(* `get_nodes(alloc, latex)?` returned Err: latex_to_mathml returns it.    *)
ReturnError ==
    /\ pc = "parsed"
    /\ ~result.ok
    /\ pc' = "failed"
    /\ UNCHANGED <<input, result, display, pretty, output>>

(* The rest of latex_to_mathml: the opening for the display mode, the      *)
(* emitted nodes, a newline when pretty, the closing.                      *)
EmitMathml ==
    /\ pc = "parsed"
    /\ result.ok
    /\ output' = <<MathOpen(display)>> \o EmitTree(Ast(result))
                     \o (IF pretty THEN <<"\n">> ELSE <<>>) \o <<MathClose>>
    /\ pc' = "done"
    /\ UNCHANGED <<input, result, display, pretty>>

Next == GetNodes \/ ReturnError \/ EmitMathml

----------------------------------------------------------------------------
(* The arguments of a call: the source string, a concatenation of at most  *)
(* MaxFrags fragments, the display mode and the pretty flag.               *)

RECURSIVE Flatten(_)
Flatten(ss) == IF ss = <<>> THEN <<>> ELSE Head(ss) \o Flatten(Tail(ss))

Strings(frags, n) == UNION {{Flatten(fs) : fs \in [1..k -> frags]} : k \in 0..n}

InitWith(inputs) ==
    /\ input \in inputs
    /\ pc = "start"
    /\ result = NoResult
    /\ display \in Displays
    /\ pretty \in BOOLEAN
    /\ output = <<>>

Cmd(name) == <<"\\">> \o name

GeneralFrags == {<<"x">>, <<"1">>, <<"^">>, <<"_">>, <<"{">>, <<"}">>, <<" ">>,
                 <<".">>, <<"'">>, Cmd(Chars.sqrt), Cmd(Chars.sum)}

Init == InitWith(Strings(GeneralFrags, MaxFrags))

Spec == Init /\ [][Next]_vars

----------------------------------------------------------------------------
(* C1: when the parse succeeds the string returned by latex_to_mathml      *)
(* begins with <math display="block"> for Display::Block and with <math>   *)
(* for Display::Inline, and ends with </math>; when the parse fails the    *)
(* error is returned and no output string is produced.                     *)
MathmlEnvelope ==
    /\ pc = "done" =>
          /\ result.ok
          /\ display = "Block" => Head(output) = "<math display=\"block\">"
          /\ display = "Inline" => Head(output) = "<math>"
          /\ output[Len(output)] = "</math>"
          /\ Len(output) >= 2
    /\ pc = "failed" => ~result.ok /\ output = <<>>
    /\ pc \in {"start", "parsed"} => output = <<>>

BlockOutputProduced ==
    pc = "done" /\ display = "Block" /\ pretty /\ Len(output) > 3

----------------------------------------------------------------------------
(* Digit-grabbing commands followed by digits.                             *)

DigitFrags == {Cmd(Chars.sqrt), Cmd(Chars.frac), Cmd(Chars.binom), <<"1">>, <<"2">>,
               <<" ">>, <<"x">>, <<"{">>, <<"}">>, <<"^">>}

InitDigit == InitWith(Strings(DigitFrags, MaxFrags))

SpecDigit == InitDigit /\ [][Next]_vars

(* The 0-based index of the first code point at or after pos that is not   *)
(* whitespace.                                                             *)
RECURSIVE AfterWhitespace(_, _)
AfterWhitespace(s, pos) ==
    IF pos < Len(s) /\ is_ascii_whitespace(s[pos + 1])
    THEN AfterWhitespace(s, pos + 1) ELSE pos

CodePointAt(s, pos) == IF pos < Len(s) THEN s[pos + 1] ELSE NUL

GrabbingNames == {Chars.sqrt, Chars.frac, Chars.tfrac, Chars.dfrac, Chars.binom}

(* The source with braces put around every digit that directly follows a   *)
(* digit-grabbing command (i is a 1-based index).                          *)
RECURSIVE BraceGrabbedDigits(_, _)
BraceGrabbedDigits(s, i) ==
    IF i > Len(s) THEN <<>>
    ELSE IF s[i] # "\\" THEN <<s[i]>> \o BraceGrabbedDigits(s, i + 1)
    ELSE LET rc == read_command([src |-> s, pos |-> i, text_mode |-> FALSE])
             k == AfterWhitespace(s, rc.l.pos)
         IN IF rc.name \in GrabbingNames /\ CodePointAt(s, k) \in Digits
            THEN SubSeq(s, i, k) \o <<"{", s[k + 1], "}">> \o BraceGrabbedDigits(s, k + 2)
            ELSE SubSeq(s, i, rc.l.pos) \o BraceGrabbedDigits(s, rc.l.pos + 1)

NumberLeafTree(digits) ==
    [t |-> "Number", s |-> digits, attr |-> <<>>, str |-> <<>>, kids |-> <<>>,
     items |-> <<>>]

(* C2: a lexer call made right after a digit-grabbing command (\sqrt,      *)
(* \frac, \binom) whose next code point after whitespace is an ASCII digit *)
(* returns a Number of exactly that one digit, even if more digits follow; *)
(* so the tree is the one of the source with that digit in braces:         *)
(* \sqrt12 parses as \sqrt{1}2 and \frac12 as \frac{1}{2}.                 *)
DigitGrabbing ==
    pc # "start" =>
      /\ \A i \in 1..Len(result.p.calls) :
            LET c == result.p.calls[i]
                d == CodePointAt(input, AfterWhitespace(input, c.pos))
            IN (c.prev.k \in {"Sqrt", "Frac", "Binom"} /\ d \in Digits)
                  => c.tok.k = "Number" /\ c.tok.v = <<d>>
      /\ LET braced == get_nodes(BraceGrabbedDigits(input, 1))
         IN braced.ok = result.ok /\ Ast(braced) = Ast(result)
      /\ input = Cmd(Chars.sqrt) \o <<"1", "2">> =>
            /\ result.ok
            /\ Ast(result) = Ast(get_nodes(Cmd(Chars.sqrt) \o <<"{", "1", "}", "2">>))
            /\ Len(Ast(result).items) = 2
            /\ Ast(result).items[1].t = "Sqrt"
            /\ Ast(result).items[1].kids = <<NumberLeafTree(<<"1">>)>>
            /\ Ast(result).items[2] = NumberLeafTree(<<"2">>)
      /\ input = Cmd(Chars.frac) \o <<"1", "2">> =>
            /\ result.ok
            /\ Ast(result) =
                  Ast(get_nodes(Cmd(Chars.frac) \o <<"{", "1", "}", "{", "2", "}">>))
            /\ Len(Ast(result).items) = 1
            /\ Ast(result).items[1].t = "Frac"
            /\ Ast(result).items[1].kids = <<NumberLeafTree(<<"1">>), NumberLeafTree(<<"2">>)>>

SqrtGrabbedOneDigit ==
    /\ pc = "done"
    /\ input = Cmd(Chars.sqrt) \o <<"1", "2">>
    /\ \E i \in 1..Len(result.p.calls) :
          result.p.calls[i].prev.k = "Sqrt" /\ result.p.calls[i].tok.v = <<"1">>

----------------------------------------------------------------------------
(* Numbers with decimal points and thousands separators.                   *)

NumberFrags == {<<"1">>, <<"2", "3">>, <<".">>, <<",">>, <<" ">>, <<"x">>, <<"^">>,
                Cmd(Chars.sqrt)}

InitNumber == InitWith(Strings(NumberFrags, MaxFrags))

SpecNumber == InitNumber /\ [][Next]_vars

(* The end of the longest run of digits, and of `.` or `,` directly        *)
(* followed by a digit, from pos on.                                       *)
RECURSIVE NumberEnd(_, _)
NumberEnd(s, pos) ==
    IF CodePointAt(s, pos) \in Digits THEN NumberEnd(s, pos + 1)
    ELSE IF CodePointAt(s, pos) \in {".", ","} /\ CodePointAt(s, pos + 1) \in Digits
    THEN NumberEnd(s, pos + 2)
    ELSE pos

(* The node a token stands under when scripts were attached to it.         *)
ScriptTarget(tree) ==
    IF tree.t \in {"Subscript", "Superscript", "SubSup"} THEN tree.kids[1] ELSE tree

NumberThenOperator(tree, digits, op) ==
    /\ tree.t = "PseudoRow"
    /\ Len(tree.items) = 2
    /\ tree.items[1] = NumberLeafTree(digits)
    /\ tree.items[2].t = "Operator" /\ tree.items[2].s = <<op>>
    /\ tree.items[2].kids = <<>> /\ tree.items[2].items = <<>>

(* C3: where the lexer meets a digit (not right after a digit-grabbing     *)
(* command), digits and every `.` or `,` directly followed by a digit are  *)
(* one Number token; if the run is followed by a `.` or `,` that is not    *)
(* followed by a digit the token is NumberWithDot resp. NumberWithComma,   *)
(* its slice is the text before that punctuation and the punctuation is    *)
(* consumed exactly once; the parser turns such a token into Number(slice) *)
(* followed by Operator(FULL_STOP) resp. Operator(COMMA).                  *)
NumberFragmentation ==
    pc # "start" =>
      /\ \A i \in 1..Len(result.p.calls) :
            LET c == result.p.calls[i]
                start == AfterWhitespace(input, c.pos)
                end == NumberEnd(input, start)
                follows == CodePointAt(input, end)
            IN (c.prev.k \notin {"Sqrt", "Frac", "Binom"}
                /\ CodePointAt(input, start) \in Digits)
                  => /\ c.tok.v = Slice(input, start, end)
                     /\ follows = "." => c.tok.k = "NumberWithDot" /\ c.after = end + 1
                     /\ follows = "," => c.tok.k = "NumberWithComma" /\ c.after = end + 1
                     /\ follows \notin {".", ","} => c.tok.k = "Number" /\ c.after = end
      /\ (result.ok /\ result.p.calls[1].tok.k = "NumberWithDot")
            => NumberThenOperator(ScriptTarget(Ast(result).items[1]),
                                  result.p.calls[1].tok.v, ".")
      /\ (result.ok /\ result.p.calls[1].tok.k = "NumberWithComma")
            => NumberThenOperator(ScriptTarget(Ast(result).items[1]),
                                  result.p.calls[1].tok.v, ",")

NumberWithCommaParsed ==
    /\ pc = "done"
    /\ input = <<"2", "3", ",", "x">>
    /\ result.p.calls[1].tok.k = "NumberWithComma"
    /\ result.p.calls[1].tok.v = <<"2", "3">>

----------------------------------------------------------------------------
(* Scripts: a base followed by two scripts, each `_` or `^` (the second    *)
(* possibly missing) with its operand (possibly missing).                  *)

PlainBases == {<<"x">>, <<"1">>, <<"{", "x", "y", "}">>, Cmd(Chars.sum), Cmd(Chars.int),
               Cmd(Chars.int) \o Cmd(Chars_limits)}

ScriptBases == PlainBases \cup {Cmd(Chars.lim), Cmd(Chars.sqrt) \o <<"{", "x", "}">>}

PlainOperands == {<<"a">>, <<"2">>, <<"{", "a", "b", "}">>}

ScriptOperands == PlainOperands \cup {Cmd(Chars.sum), Cmd(Chars.sqrt) \o <<" ", "y">>}

ScriptMarks == {<<"_">>, <<"^">>}

ScriptInputs ==
    {base \o s1 \o o1 \o s2 \o o2 :
        base \in ScriptBases, s1 \in ScriptMarks, s2 \in ScriptMarks \cup {<<>>},
        o1 \in ScriptOperands \cup {<<>>, <<"'">>},
        o2 \in ScriptOperands \cup {<<>>, <<"'">>}}

InitScript == InitWith(ScriptInputs)

SpecScript == InitScript /\ [][Next]_vars

(* The tree of a source that is one node.                                  *)
NodeOf(latex) == Ast(get_nodes(latex)).items[1]

UnderOverBases == {Cmd(Chars.sum), Cmd(Chars.int) \o Cmd(Chars_limits)}

BothScripts(base, a, b) ==
    [t |-> IF base \in UnderOverBases THEN "UnderOver" ELSE "SubSup",
     s |-> <<>>, attr |-> <<>>, str |-> <<>>,
     kids |-> <<NodeOf(base), NodeOf(a), NodeOf(b)>>, items |-> <<>>]

ScriptOrder(bases, operands) ==
    pc # "start" =>
      \A base \in bases, a \in operands, b \in operands :
         input \in {base \o <<"_">> \o a \o <<"^">> \o b,
                    base \o <<"^">> \o b \o <<"_">> \o a}
            => result.ok /\ Ast(result).items = <<BothScripts(base, a, b)>>

(* C4 as stated: for any base node and any script operands a and b,        *)
(* base_a^b and base^b_a both give SubSup{target: base, sub: a, sup: b}    *)
(* (UnderOver for big operators and \int\limits).                          *)
ScriptOrderAnyOperands == ScriptOrder(ScriptBases, ScriptOperands)

(* C4, amended: for a base that is a letter, a number, a brace group, a    *)
(* big operator or an integral, and operands a and b that are letters,     *)
(* numbers or brace groups, base_a^b and base^b_a both give                *)
(* SubSup{target: base, sub: a, sup: b} (UnderOver for big operators and   *)
(* \int\limits): the slots do not depend on the order written.             *)
ScriptOrderPlain == ScriptOrder(PlainBases, PlainOperands)

SupWrittenFirst ==
    /\ pc = "done"
    /\ input = <<"x", "^", "2", "_", "a">>
    /\ Ast(result).items[1].t = "SubSup"
    /\ Ast(result).items[1].kids[2].s = <<"a">>

IsPrefix(pre, s) == Len(pre) <= Len(s) /\ SubSeq(s, 1, Len(pre)) = pre

MarkKind(mark) ==
    CASE mark = <<"_">> -> "Underscore"
      [] mark = <<"^">> -> "Circumflex"
      [] mark = <<"'">> -> "Prime"

FailsWith(e, got_kind, got_loc) ==
    /\ ~result.ok
    /\ Ast(result) = <<>>
    /\ result.err.e = e
    /\ result.err.got.k = got_kind
    /\ result.err.got.loc = got_loc
    /\ pc = "failed" => output = <<>>

----------------------------------------------------------------------------
(* Fences: \left <open> body \right <close>, possibly cut short.           *)

FenceDelims == {<<"(">>, <<")">>, <<"[">>, <<"]">>, <<"|">>, Cmd(<<"{">>), <<".">>}

(* Sources of tokens that are no delimiter, with the token each lexes to.  *)
NonDelims ==
    {[src |-> <<" ", "x">>, k |-> "Letter", v |-> <<"x">>],
     [src |-> <<"1">>, k |-> "Number", v |-> <<"1">>],
     [src |-> <<"+">>, k |-> "Operator", v |-> <<"+">>],
     [src |-> <<",">>, k |-> "Operator", v |-> <<",">>],
     [src |-> <<"}">>, k |-> "GroupEnd", v |-> <<>>],
     [src |-> <<"^">>, k |-> "Circumflex", v |-> <<>>],
     [src |-> Cmd(Chars.right), k |-> "Right", v |-> <<>>]}

FenceBodies == {<<" ", "x", " ">>, <<" ", "x", "^", "2">>, <<>>, <<"{", "x", "y", "}">>}

AfterFenceCommand == FenceDelims \cup {nd.src : nd \in NonDelims}

FenceInputs ==
    {Cmd(Chars.left) \o o \o body \o Cmd(Chars.right) \o c :
        o \in AfterFenceCommand, body \in FenceBodies, c \in AfterFenceCommand}
    \cup {Cmd(Chars.left) \o o \o body \o Cmd(Chars.right) :
             o \in AfterFenceCommand, body \in FenceBodies}
    \cup {Cmd(Chars.left) \o o : o \in AfterFenceCommand \cup {<<>>}}

InitFence == InitWith(FenceInputs)

SpecFence == InitFence /\ [][Next]_vars

LeftParenXRightDot == Cmd(Chars.left) \o <<"(", " ", "x", " ">> \o Cmd(Chars.right) \o <<".">>

FencedTree(open, close, content) ==
    [t |-> "Fenced", s |-> <<open, close>>, attr |-> <<>>, str |-> <<>>,
     kids |-> <<content>>, items |-> <<>>]

(* C6: a `.` at either delimiter position of \left ... \right is accepted  *)
(* and stands for the NULL delimiter; `\left( x \right.` parses without    *)
(* error into Fenced{open: '(', close: NULL, content: x}.                  *)
DotDelimiterAccepted ==
    pc # "start" =>
      /\ input = LeftParenXRightDot =>
            /\ result.ok
            /\ Ast(result).items = <<FencedTree("(", NULL_OP, NodeOf(<<"x">>))>>
      /\ input = Cmd(Chars.left) \o <<".", " ", "x", " ">> \o Cmd(Chars.right) \o <<")">> =>
            /\ result.ok
            /\ Ast(result).items = <<FencedTree(NULL_OP, ")", NodeOf(<<"x">>))>>

(* What the code does with `\left( x \right.`.                             *)
RightDotRejected ==
    /\ pc = "failed"
    /\ input = LeftParenXRightDot
    /\ result.err.e = "MissingParenthesis"
    /\ result.err.a = <<"Right">>
    /\ result.err.got.k = "Letter" /\ result.err.got.v = <<".">>

MissingParenthesisWith(location, nd, loc) ==
    /\ FailsWith("MissingParenthesis", nd.k, loc)
    /\ result.err.a = <<location>>
    /\ result.err.got.v = nd.v

EndOfInput == [src |-> <<>>, k |-> "EOF", v |-> <<>>]

(* C7: if the token right after \left, or right after the \right closing   *)
(* it, is not a Paren token, `]` or `.`, the parse fails with              *)
(* MissingParenthesis whose location is Left resp. Right and whose got is  *)
(* that token (EOF included); no tree, so no Fenced node, is produced.     *)
MissingParenthesisReported ==
    pc # "start" =>
      /\ \A nd \in NonDelims \cup {EndOfInput} :
            (IsPrefix(Cmd(Chars.left) \o nd.src, input)
             /\ (nd = EndOfInput => input = Cmd(Chars.left)))
               => MissingParenthesisWith("Left", nd,
                     AfterWhitespace(input, Len(Cmd(Chars.left))))
      /\ \A o \in FenceDelims \ {<<".">>}, body \in FenceBodies,
            nd \in NonDelims \cup {EndOfInput} :
            input = Cmd(Chars.left) \o o \o body \o Cmd(Chars.right) \o nd.src
               => MissingParenthesisWith("Right", nd,
                     AfterWhitespace(input, Len(input) - Len(nd.src)))

RightAtEndOfInput ==
    /\ pc = "failed"
    /\ input = Cmd(Chars.left) \o <<"(", " ", "x", " ">> \o Cmd(Chars.right)
    /\ result.err.e = "MissingParenthesis"
    /\ result.err.a = <<"Right">>
    /\ result.err.got.k = "EOF"

----------------------------------------------------------------------------
(* Environments: \begin{n1} body \end{n2}.                                 *)

KnownEnvironments == {Env.matrix, Env.pmatrix, Env.bmatrix, Env.vmatrix, Env.align,
                      Env.align_star, Env.aligned, Env.cases}

OtherNames == {<<" ">> \o Env.matrix, Env.matrix \o <<" ">>, <<"M">> \o Tail(Env.matrix),
               <<"f", "o", "o">>, <<>>}

EnvNames == KnownEnvironments \cup OtherNames

GoodBodies == {<<"x">>, <<"x", "&", "1", "\\", "\\", "y", "&", "2">>, <<>>}

(* Bodies whose parse is an error of its own.                              *)
BadBodies == {<<"^">>, Cmd(<<"f", "o", "o">>) \o <<" ">>}

Environment(n1, body, n2) ==
    Cmd(Chars.begin) \o <<"{">> \o n1 \o <<"}">> \o body
       \o Cmd(Chars.end) \o <<"{">> \o n2 \o <<"}">>

EnvInputs ==
    {Environment(n1, body, n2) :
        n1 \in EnvNames, body \in GoodBodies \cup BadBodies, n2 \in EnvNames}

InitEnv == InitWith(EnvInputs)

SpecEnv == InitEnv /\ [][Next]_vars

(* C8: for \begin{n1} ... \end{n2}, if n1 is not exactly one of matrix,    *)
(* pmatrix, bmatrix, vmatrix, align, align*, aligned, cases (spaces are    *)
(* not trimmed) the parse fails with UnknownEnvironment(n1) whatever the   *)
(* body is, so before the body is parsed; otherwise, when the body parses  *)
(* and n2 differs from n1, it fails with                                   *)
(* MismatchedEnvironment{expected: n1, got: n2}.                           *)
EnvironmentErrors ==
    pc # "start" =>
      \A n1 \in EnvNames, n2 \in EnvNames :
         /\ \A body \in GoodBodies \cup BadBodies :
               (input = Environment(n1, body, n2) /\ n1 \notin KnownEnvironments)
                  => /\ FailsWith("UnknownEnvironment", "None", NoLoc)
                     /\ result.err.a = n1
                     /\ result.p.arena = <<>>
         /\ \A body \in GoodBodies :
               (input = Environment(n1, body, n2) /\ n1 \in KnownEnvironments /\ n2 # n1)
                  => /\ FailsWith("MismatchedEnvironment", "None", NoLoc)
                     /\ result.err.a = n1
                     /\ result.err.b = n2

MismatchReported ==
    /\ pc = "failed"
    /\ input = Environment(Env.pmatrix, <<"x">>, Env.matrix)
    /\ result.err.e = "MismatchedEnvironment"
    /\ result.err.a = Env.pmatrix

----------------------------------------------------------------------------
(* Closing tokens with and without an opening partner.                     *)

CloseFrags == {<<"x">>, <<"{">>, <<"}">>, Cmd(Chars.right) \o <<")">>, Cmd(Chars.end),
               Cmd(Chars.left) \o <<"(">>, Cmd(Chars.slashed), <<"^">>}

InitClose == InitWith(Strings(CloseFrags, MaxFrags))

SpecClose == InitClose /\ [][Next]_vars

CloserOf(k) ==
    CASE k = "GroupBegin" -> "GroupEnd"
      [] k = "Left" -> "Right"
      [] k = "Begin" -> "End"

(* Some token of toks, from the i-th on, is a closer that does not close   *)
(* the innermost open group (open lists the closers awaited).              *)
RECURSIVE StrayCloserFrom(_, _, _)
StrayCloserFrom(toks, i, open) ==
    IF i > Len(toks) THEN FALSE
    ELSE IF toks[i].k \in {"GroupBegin", "Left", "Begin"}
    THEN StrayCloserFrom(toks, i + 1, <<CloserOf(toks[i].k)>> \o open)
    ELSE IF toks[i].k \in {"GroupEnd", "Right", "End"}
    THEN IF open = <<>> \/ Head(open) # toks[i].k THEN TRUE
         ELSE StrayCloserFrom(toks, i + 1, Tail(open))
    ELSE StrayCloserFrom(toks, i + 1, open)

TokensRead(r) == [i \in 1..Len(r.p.calls) |-> r.p.calls[i].tok]

(* C9: when the input holds a `}`, \right or \end with no opening partner  *)
(* the parse fails; it is never accepted or silently skipped; met at top   *)
(* level the error is UnexpectedClose carrying that token.                 *)
StrayCloserRejected ==
    pc # "start" =>
      /\ StrayCloserFrom(TokensRead(result), 1, <<>>) => ~result.ok
      /\ TokensRead(result)[1].k \in {"GroupEnd", "Right", "End"}
            => FailsWith("UnexpectedClose", TokensRead(result)[1].k, 0)

SlashedSkippedBrace == Cmd(Chars.slashed) \o <<"}", "x">>

(* What the code does with `\slashed}x`.                                   *)
StrayCloserSkipped ==
    /\ pc = "done"
    /\ input = SlashedSkippedBrace
    /\ Len(Ast(result).items) = 1
    /\ Ast(result).items[1].t = "Slashed"
    /\ Ast(result).items[1].kids = <<NodeOf(<<"x">>)>>

----------------------------------------------------------------------------
(* `^`, `_`, `'` and \limits where a node is expected: at the start of the *)
(* input, of a brace group or of the argument of \sqrt.                    *)

StrayTokens ==
    {[src |-> <<"^">>, k |-> "Circumflex"], [src |-> <<"'">>, k |-> "Prime"],
     [src |-> Cmd(Chars_limits), k |-> "Limits"],
     [src |-> <<"_">>, k |-> "Underscore"]}

NodePlaces == {<<>>, <<"{">>, Cmd(Chars.sqrt), <<"x", " ">>, <<" ">>}

StrayRests == {<<>>, <<" ", "a">>, <<" ", "a", "x">>, <<"{", "a", "b", "}", "1">>,
               <<"}">>, <<" ", "2", "x", "^", "a">>}

StrayInputs ==
    {place \o t.src \o rest : place \in NodePlaces, t \in StrayTokens, rest \in StrayRests}
    \cup {place \o rest : place \in NodePlaces, rest \in StrayRests}

InitStray == InitWith(StrayInputs)

SpecStray == InitStray /\ [][Next]_vars

(* The places where the next token starts a node.                          *)
EmptyPlaces == {<<>>, <<" ">>, <<"{">>, Cmd(Chars.sqrt)}

StrayFails(tokens) ==
    pc # "start" =>
      \A place \in EmptyPlaces, t \in tokens :
         IsPrefix(place \o t.src, input)
            => FailsWith("CannotBeUsedHere", t.k, Len(place))

----------------------------------------------------------------------------
(* `\not` followed by one token, at the start of the input or after a      *)
(* letter, with nothing or one more letter behind it.                      *)

(* The tokens tried after `\not`: the source text, and what the negation   *)
(* rules make of it (an operator with a negated form neg, a letter c, or   *)
(* neither).                                                               *)
NotNexts ==
    {[src |-> <<"=">>, rule |-> "negated", to |-> "U+2260"],
     [src |-> Cmd(Chars.in), rule |-> "negated", to |-> "U+2209"],
     [src |-> <<"<">>, rule |-> "negated", to |-> NOT_LESS_THAN],
     [src |-> <<">">>, rule |-> "negated", to |-> NOT_GREATER_THAN],
     [src |-> <<" ", "x">>, rule |-> "letter", to |-> "x"],
     [src |-> Cmd(Chars.alpha), rule |-> "letter", to |-> "U+03B1"],
     [src |-> Cmd(Chars.infty), rule |-> "letter", to |-> "U+221E"],
     [src |-> <<"+">>, rule |-> "neither", to |-> ""],
     [src |-> Cmd(Chars.times), rule |-> "neither", to |-> ""],
     [src |-> <<"1">>, rule |-> "neither", to |-> ""],
     [src |-> <<"(">>, rule |-> "neither", to |-> ""],
     [src |-> <<"{", "x", "}">>, rule |-> "neither", to |-> ""],
     [src |-> <<"}">>, rule |-> "neither", to |-> ""],
     [src |-> <<"^">>, rule |-> "neither", to |-> ""],
     [src |-> Cmd(Chars_not), rule |-> "neither", to |-> ""]}

NotPlaces == {<<>>, <<"x">>, <<"1", " ">>}

NotRests == {<<>>, <<" ", "y">>}

NotInputs ==
    {pre \o Cmd(Chars_not) \o nx.src \o rest :
        pre \in NotPlaces, nx \in NotNexts, rest \in NotRests}
    \cup {pre \o Cmd(Chars_not) \o ws : pre \in NotPlaces, ws \in {<<>>, <<" ">>}}

InitNot == InitWith(NotInputs)

SpecNot == InitNot /\ [][Next]_vars

(* The node parsed from `\not` and its operand, standing after `pre`.      *)
NotNode(pre) == Ast(result).items[IF pre = <<>> THEN 1 ELSE 2]

NotOutcome(nx, pre) ==
    CASE nx.rule = "negated" ->
            /\ result.ok
            /\ NotNode(pre).t = "Operator"
            /\ NotNode(pre).s = <<nx.to>>
      [] nx.rule = "letter" ->
            /\ result.ok
            /\ NotNode(pre).t = "MultiLetterIdent"
            /\ NotNode(pre).str = <<nx.to, "U+0338">>
      [] OTHER ->
            /\ ~result.ok
            /\ result.err.e = "CannotBeUsedHere"
            /\ result.err.got.k = "Not"
            /\ result.err.got.loc = Len(pre)

(* C11: after `\not`, an operator with a canonical negated form (and `<`,  *)
(* `>`) gives Operator(negated form); otherwise a letter gives a           *)
(* MultiLetterIdent of the letter followed by U+0338; any other next token *)
(* (also the end of the input) makes the parse fail with CannotBeUsedHere  *)
(* carrying the `\not` token.                                              *)
NotNegates ==
    pc = "parsed" =>
       /\ \A pre \in NotPlaces, nx \in NotNexts, rest \in NotRests :
              input = pre \o Cmd(Chars_not) \o nx.src \o rest => NotOutcome(nx, pre)
       /\ \A pre \in NotPlaces, ws \in {<<>>, <<" ">>} :
              input = pre \o Cmd(Chars_not) \o ws =>
                 NotOutcome([src |-> <<>>, rule |-> "neither", to |-> ""], pre)

(* `\not+` is accepted: the operator is emitted as it stands.              *)
NotPlusAccepted ==
    /\ pc = "parsed"
    /\ input = Cmd(Chars_not) \o <<"+">>
    /\ result.ok
    /\ NotNode(<<>>).t = "Operator"
    /\ NotNode(<<>>).s = <<PLUS_SIGN>>

----------------------------------------------------------------------------
(* Sources that may hold U+0000 as one of their code points.               *)

WholeFrags == {<<"x">>, <<"1">>, <<NUL>>, <<" ">>, <<"^">>, <<"{">>, <<"}">>,
               Cmd(Chars.sqrt)}

InitWhole == InitWith(Strings(WholeFrags, MaxFrags))

SpecWhole == InitWhole /\ [][Next]_vars

(* C12: parse returns Ok only after the whole input has been tokenised:    *)
(* every EOF token the lexer produced stands at the input length, and the  *)
(* lexer has read the input to its end, so no suffix is left unread.       *)
WholeInputTokenised ==
    (pc = "parsed" /\ result.ok) =>
        /\ \A i \in 1..Len(result.p.calls) :
              result.p.calls[i].tok.k = "EOF" =>
                 result.p.calls[i].tok.loc = ByteLen(input)
        /\ result.p.l.pos = Len(input)

(* `x`, U+0000, `^`: the parse succeeds with the single node x, the EOF    *)
(* token stands at offset 1 and the stray `^` behind it is never parsed.   *)
NulEndsParse ==
    /\ pc = "parsed"
    /\ input = <<"x", NUL, "^">>
    /\ result.ok
    /\ Len(Ast(result).items) = 1
    /\ \E i \in 1..Len(result.p.calls) :
          /\ result.p.calls[i].tok.k = "EOF"
          /\ result.p.calls[i].tok.loc = 1

----------------------------------------------------------------------------
(* Commands of the table followed by digits, letters and groups.           *)

FontFrags == {Cmd(Chars.mathrm), Cmd(Chars.mathbf), Cmd(Chars.mathit), Cmd(Chars.sqrt),
              Cmd(Chars.tfrac), Cmd(Chars.alpha), <<"1">>, <<"2">>, <<"x">>, <<"{">>,
              <<"}">>, <<" ">>, <<"+">>}

InitFont == InitWith(Strings(FontFrags, MaxFrags))

SpecFont == InitFont /\ [][Next]_vars

(* The command names the claim lists, as far as the table above has them.  *)
DigitCommandNames ==
    {Chars.sqrt, Chars.frac, Chars.tfrac, Chars.dfrac, Chars.binom,
     Chars.mathrm, Chars.mathit, Chars.mathbf}

(* The run of ASCII letters of s from index i on (the name of a command    *)
(* whose backslash stands at index i - 1).                                 *)
RECURSIVE LettersFrom(_, _)
LettersFrom(s, i) ==
    IF i <= Len(s) /\ is_ascii_alphabetic(s[i])
    THEN <<s[i]>> \o LettersFrom(s, i + 1)
    ELSE <<>>

(* tok is the token of one of the listed commands of the source s.         *)
IsDigitCommand(s, tok) ==
    /\ tok.loc >= 0
    /\ tok.loc < Len(s)
    /\ s[tok.loc + 1] = "\\"
    /\ LettersFrom(s, tok.loc + 2) \in DigitCommandNames

(* C13: acts_on_a_digit is true for the tokens of `\sqrt`, of the `\frac`  *)
(* and `\binom` families and of every font-transform command (`\mathrm`,   *)
(* `\mathit`, `\mathbf`, ...) and false for every other token: on every    *)
(* call of the lexer the flag passed is TRUE exactly when the token before *)
(* it is the token of one of these commands.                               *)
ActsOnADigitTable ==
    pc = "parsed" =>
       \A i \in 1..Len(result.p.calls) :
          result.p.calls[i].wants = IsDigitCommand(input, result.p.calls[i].prev)

(* `\mathrm12`: the lexer is not asked for a digit after `\mathrm` and     *)
(* reads the whole number 12.                                              *)
MathrmTookWholeNumber ==
    /\ pc = "parsed"
    /\ input = Cmd(Chars.mathrm) \o <<"1", "2">>
    /\ result.ok
    /\ Len(Ast(result).items) = 1
    /\ Ast(result).items[1].t = "Number"
    /\ Ast(result).items[1].s = <<"1", "2">>

----------------------------------------------------------------------------
(* The delimiter-scanning preprocessor of the command-line tool            *)
(* (latex2mmlc_cli, replace.rs).  A document is a sequence of code points  *)
(* like a source; its offsets are indices, the documents here being ASCII. *)

NotFound == 0 - 1

(* Finder::find: the offset of the first occurrence of needle in haystack. *)
RECURSIVE FindFrom(_, _, _)
FindFrom(needle, haystack, i) ==
    IF i + Len(needle) > Len(haystack) THEN NotFound
    ELSE IF SubSeq(haystack, i + 1, i + Len(needle)) = needle THEN i
    ELSE FindFrom(needle, haystack, i + 1)

Finder_find(needle, haystack) == FindFrom(needle, haystack, 0)

(* Replacer::new: the finders are kept as the delimiters they search for.  *)
Replacer_new(inline_delim, block_delim) ==
    [opening_finders |-> <<inline_delim[1], block_delim[1]>>,
     closing_finders |-> <<inline_delim[2], block_delim[2]>>,
     opening_lengths |-> <<Len(inline_delim[1]), Len(block_delim[1])>>,
     closing_lengths |-> <<Len(inline_delim[2]), Len(block_delim[2])>>]

NoDelimiter == [typ |-> "None", idx |-> NotFound]

NextDelimiterInlineFirst(inline_pos, block_pos) ==
    CASE inline_pos # NotFound /\ block_pos # NotFound /\ inline_pos <= block_pos ->
            [typ |-> "Inline", idx |-> inline_pos]
      [] block_pos # NotFound -> [typ |-> "Block", idx |-> block_pos]
      [] inline_pos # NotFound -> [typ |-> "Inline", idx |-> inline_pos]
      [] OTHER -> NoDelimiter

(* The match of find_next_delimiter on the two positions found.            *)
NextDelimiter(inline_pos, block_pos) ==
    CASE inline_pos # NotFound /\ block_pos # NotFound /\ inline_pos < block_pos ->
            [typ |-> "Inline", idx |-> inline_pos]
      [] block_pos # NotFound -> [typ |-> "Block", idx |-> block_pos]
      [] inline_pos # NotFound -> [typ |-> "Inline", idx |-> inline_pos]
      [] OTHER -> NoDelimiter

(* Replacer::find_next_delimiter *)
find_next_delimiter(self, in, opening) ==
    Let(IF opening THEN self.opening_finders ELSE self.closing_finders, LAMBDA finders :
        NextDelimiter(Finder_find(finders[1], in), Finder_find(finders[2], in)))

DelimLenOfOther(lengths, typ) == IF typ = "Inline" THEN lengths[2] ELSE lengths[1]

DelimLen(lengths, typ) == IF typ = "Inline" THEN lengths[1] ELSE lengths[2]

(* The converter handed to replace (the parameter f): it writes the        *)
(* conversion of the content into the buffer, or returns the LatexError of *)
(* the core.  The text written is the one of the mock of the tests.        *)
convert(content, typ) ==
    IF get_nodes(content).ok
    THEN [ok |-> TRUE,
          out |-> <<"[", IF typ = "Inline" THEN "T1" ELSE "T2", ":">> \o content \o <<"]">>]
    ELSE [ok |-> FALSE, out |-> <<>>]

(* Results of replace.  calls records the calls of the converter (content, *)
(* kind, offset of the content, and the current_pos the iteration ends     *)
(* with); at is the offset behind the opening                              *)
(* delimiter at which an error was met and typ the kind of that delimiter. *)
ReplaceOk(string, calls) ==
    [ok |-> TRUE, v |-> string, err |-> "None", typ |-> "None", at |-> NotFound,
     calls |-> calls]

ReplaceErr(e, typ, at, calls) ==
    [ok |-> FALSE, v |-> <<>>, err |-> e, typ |-> typ, at |-> at, calls |-> calls]

PositionAtClosing(end, closing_delim_len) == end

(* `current_pos = end + closing_delim_len` *)
PositionBehind(end, closing_delim_len) == end + closing_delim_len

(* The part of the loop body of replace behind the opening delimiter.      *)
RECURSIVE ReplaceLoop(_, _, _, _, _)
ReplaceIsland(self, in, open_typ, start, res, calls) ==
    Let(find_next_delimiter(self, Slice(in, start, Len(in)), FALSE), LAMBDA closing :
    IF closing.typ = "None" THEN ReplaceErr("UnclosedDelimiter", open_typ, start, calls)
    ELSE IF open_typ # closing.typ
    THEN ReplaceErr("MismatchedDelimiters", open_typ, start, calls)
    ELSE Let(start + closing.idx, LAMBDA end :
         Let(Slice(in, start, end), LAMBDA content :
            IF find_next_delimiter(self, content, TRUE).typ # "None"
            THEN ReplaceErr("NestedDelimiters", open_typ, start, calls)
            ELSE Let(convert(content, open_typ), LAMBDA c :
                 IF ~c.ok THEN ReplaceErr("LatexError", open_typ, start, calls)
                 ELSE ReplaceLoop(self, in,
                         PositionBehind(end, DelimLen(self.closing_lengths, closing.typ)),
                         res \o c.out,
                         Append(calls, [content |-> content, typ |-> open_typ,
                                        start |-> start,
                                        next |-> PositionBehind(end,
                                                    DelimLen(self.closing_lengths,
                                                             closing.typ))]))))))

(* The while loop of replace.                                              *)
ReplaceLoop(self, in, current_pos, res, calls) ==
    IF ~(current_pos < Len(in)) THEN ReplaceOk(res, calls)
    ELSE Let(Slice(in, current_pos, Len(in)), LAMBDA remaining :
         Let(find_next_delimiter(self, remaining, TRUE), LAMBDA opening :
            IF opening.typ = "None" THEN ReplaceOk(res \o remaining, calls)
            ELSE Let(current_pos + opening.idx, LAMBDA start :
                 ReplaceIsland(self, in, opening.typ,
                               start + DelimLen(self.opening_lengths, opening.typ),
                               res \o Slice(in, current_pos, start), calls))))

(* Replacer::replace *)
Replacer_replace(self, in) == ReplaceLoop(self, in, 0, <<>>, <<>>)

(* A run of the preprocessor: input holds the document and the two pairs   *)
(* of delimiters the Replacer is built with.                               *)
Replace ==
    /\ pc = "start"
    /\ result' = Replacer_replace(Replacer_new(input.inline_delim, input.block_delim),
                                  input.doc)
    /\ pc' = "replaced"
    /\ UNCHANGED <<input, display, pretty, output>>

NextReplace == Replace

MaxDocFrags == 4

DollarDelims == [inline |-> <<<<"$">>, <<"$">>>>, block |-> <<<<"$", "$">>, <<"$", "$">>>>]

ParenDelims ==
    [inline |-> <<<<"\\", "(">>, <<"\\", ")">>>>, block |-> <<<<"\\", "[">>, <<"\\", "]">>>>]

DollarFrags == {<<"a">>, <<"b", " ">>, <<"^">>, <<"$">>, <<"$", "$">>, <<"$", "a", "$">>,
                <<"$", "$", "b", "$", "$">>}

ParenFrags == {<<"a">>, <<"^">>, <<"\\", "(">>, <<"\\", ")">>, <<"\\", "[">>, <<"\\", "]">>,
               <<"\\", "(", "a", "\\", ")">>, <<"\\", "[", "a", "^", "a", "\\", "]">>}

InitReplace ==
    /\ input \in {[doc |-> d, inline_delim |-> DollarDelims.inline,
                   block_delim |-> DollarDelims.block] :
                     d \in Strings(DollarFrags, MaxDocFrags)}
            \cup {[doc |-> d, inline_delim |-> ParenDelims.inline,
                   block_delim |-> ParenDelims.block] :
                     d \in Strings(ParenFrags, MaxDocFrags)}
    /\ pc = "start"
    /\ result = NoResult
    /\ display = "Inline"
    /\ pretty = FALSE
    /\ output = <<>>

SpecReplace == InitReplace /\ [][NextReplace]_vars

(* The delimiters of a run, the offsets of an island (a call of the        *)
(* converter) in the document, and the text between the islands.           *)
OpeningOf(typ) == IF typ = "Inline" THEN input.inline_delim[1] ELSE input.block_delim[1]

ClosingOf(typ) == IF typ = "Inline" THEN input.inline_delim[2] ELSE input.block_delim[2]

IslandOpen(c) == c.start - Len(OpeningOf(c.typ))

IslandClose(c) == c.start + Len(c.content)

IslandEnd(c) == IslandClose(c) + Len(ClosingOf(c.typ))

HasOpening(text) ==
    \/ Finder_find(input.inline_delim[1], text) # NotFound
    \/ Finder_find(input.block_delim[1], text) # NotFound

(* The text before island i (behind island i - 1), and behind the last.    *)
GapBefore(calls, i) ==
    Slice(input.doc, IF i = 1 THEN 0 ELSE IslandEnd(calls[i - 1]),
          IF i > Len(calls) THEN Len(input.doc) ELSE IslandOpen(calls[i]))

(* The document with island i and all later ones replaced.                 *)
RECURSIVE Stitched(_, _)
Stitched(calls, i) ==
    IF i > Len(calls) THEN GapBefore(calls, i)
    ELSE GapBefore(calls, i) \o convert(calls[i].content, calls[i].typ).out
         \o Stitched(calls, i + 1)

(* C15: on success replace returns the document in which every delimited   *)
(* island is replaced by the converter's output for its content: the       *)
(* converter is called once per island, in source order, each island       *)
(* stands between the opening and the closing delimiter of its kind, the   *)
(* text outside the islands holds no opening delimiter and is copied       *)
(* unchanged and in order; a document without an opening delimiter (also   *)
(* the empty one) is returned unchanged.                                   *)
ReplaceOutput ==
    pc = "replaced" =>
       /\ result.ok =>
             /\ \A i \in 1..Len(result.calls) :
                   /\ IslandOpen(result.calls[i]) >=
                         (IF i = 1 THEN 0 ELSE IslandEnd(result.calls[i - 1]))
                   /\ IslandEnd(result.calls[i]) <= Len(input.doc)
                   /\ Slice(input.doc, IslandOpen(result.calls[i]), result.calls[i].start)
                         = OpeningOf(result.calls[i].typ)
                   /\ Slice(input.doc, result.calls[i].start, IslandClose(result.calls[i]))
                         = result.calls[i].content
                   /\ Slice(input.doc, IslandClose(result.calls[i]),
                            IslandEnd(result.calls[i])) = ClosingOf(result.calls[i].typ)
             /\ \A i \in 1..(Len(result.calls) + 1) : ~HasOpening(GapBefore(result.calls, i))
             /\ result.v = Stitched(result.calls, 1)
       /\ ~HasOpening(input.doc) =>
             /\ result.ok
             /\ result.v = input.doc
             /\ result.calls = <<>>

(* A letter, an inline island and a block island: both are replaced.      *)
TwoIslandsReplaced ==
    /\ pc = "replaced"
    /\ input.doc = <<"a", "\\", "(", "a", "\\", ")", "\\", "[", "a", "^", "a", "\\", "]">>
    /\ result.ok
    /\ Len(result.calls) = 2
    /\ result.calls[1].typ = "Inline"
    /\ result.calls[2].typ = "Block"
    /\ result.v = <<"a", "[", "T1", ":", "a", "]", "[", "T2", ":", "a", "^", "a", "]">>

(* The outcome the rules for errors give to an island of kind typ whose    *)
(* content starts at offset at, from the offsets of the first closing      *)
(* delimiter of each kind behind at.                                       *)
ClosingInline(at) == Finder_find(input.inline_delim[2], Slice(input.doc, at, Len(input.doc)))

ClosingBlock(at) == Finder_find(input.block_delim[2], Slice(input.doc, at, Len(input.doc)))

BlockFirst(inline_pos, block_pos) ==
    block_pos # NotFound /\ (inline_pos = NotFound \/ block_pos <= inline_pos)

FirstClosingKind(at) ==
    IF BlockFirst(ClosingInline(at), ClosingBlock(at)) THEN "Block" ELSE "Inline"

FirstClosingAt(at) ==
    at + (IF BlockFirst(ClosingInline(at), ClosingBlock(at)) THEN ClosingBlock(at)
          ELSE ClosingInline(at))

IslandOutcome(at, typ) ==
    IF ClosingInline(at) = NotFound /\ ClosingBlock(at) = NotFound THEN "UnclosedDelimiter"
    ELSE IF FirstClosingKind(at) # typ THEN "MismatchedDelimiters"
    ELSE IF HasOpening(Slice(input.doc, at, FirstClosingAt(at))) THEN "NestedDelimiters"
    ELSE IF ~get_nodes(Slice(input.doc, at, FirstClosingAt(at))).ok THEN "LatexError"
    ELSE "None"

(* The first opening delimiter at or behind offset from: its kind and the  *)
(* offset behind it.                                                       *)
OpeningInline(from) ==
    Finder_find(input.inline_delim[1], Slice(input.doc, from, Len(input.doc)))

OpeningBlock(from) ==
    Finder_find(input.block_delim[1], Slice(input.doc, from, Len(input.doc)))

FirstOpeningKind(from) ==
    IF BlockFirst(OpeningInline(from), OpeningBlock(from)) THEN "Block" ELSE "Inline"

BehindFirstOpening(from) ==
    from + (IF BlockFirst(OpeningInline(from), OpeningBlock(from))
            THEN OpeningBlock(from) + Len(input.block_delim[1])
            ELSE OpeningInline(from) + Len(input.inline_delim[1]))

EndOfIslands(calls) == IF calls = <<>> THEN 0 ELSE IslandEnd(calls[Len(calls)])

(* C16: replace fails with UnclosedDelimiter when no closing delimiter of  *)
(* either kind follows an opening delimiter, with MismatchedDelimiters     *)
(* when the first closing delimiter behind it is of the other kind (Block  *)
(* wins at equal offsets), with NestedDelimiters when the kinds match and  *)
(* the content holds an opening delimiter; the mismatch is looked for      *)
(* before the nesting; an error returns no output; and a run that succeeds *)
(* met none of these cases at any island.                                  *)
ReplaceErrors ==
    pc = "replaced" =>
       /\ \A i \in 1..Len(result.calls) :
             IslandOutcome(result.calls[i].start, result.calls[i].typ) = "None"
       /\ ~result.ok =>
             /\ result.v = <<>>
             /\ HasOpening(Slice(input.doc, EndOfIslands(result.calls), Len(input.doc)))
             /\ result.typ = FirstOpeningKind(EndOfIslands(result.calls))
             /\ result.at = BehindFirstOpening(EndOfIslands(result.calls))
             /\ result.err = IslandOutcome(result.at, result.typ)
             /\ result.err # "None"
       /\ result.ok =>
             ~HasOpening(Slice(input.doc, EndOfIslands(result.calls), Len(input.doc)))

(* `$a$$`: behind the inline opening `$` both closing delimiters are found *)
(* at the same offset, Block wins and the delimiters are mismatched.       *)
BlockWinsMismatch ==
    /\ pc = "replaced"
    /\ input.doc = <<"$", "a", "$", "$">>
    /\ input.inline_delim = DollarDelims.inline
    /\ ~result.ok
    /\ result.err = "MismatchedDelimiters"
    /\ result.typ = "Inline"
    /\ result.v = <<>>

----------------------------------------------------------------------------
(* Numbers with more than one `.` or `,`.                                  *)

PunctFrags == {<<"1">>, <<"1", ".">>, <<"2", ",">>, <<".">>, <<",">>, <<" ">>, <<"x">>,
               Cmd(Chars.sqrt)}

InitPunct == InitWith(Strings(PunctFrags, MaxFrags))

SpecPunct == InitPunct /\ [][Next]_vars

NumberKinds == {"Number", "NumberWithDot", "NumberWithComma"}

PunctuationIn(slice) == {i \in 1..Len(slice) : slice[i] \in {".", ","}}

(* C17 as stated: the slice of a Number, NumberWithDot or NumberWithComma  *)
(* token holds at most one `.` or `,`.                                     *)
AtMostOnePunctuation ==
    pc # "start" =>
       \A i \in 1..Len(result.p.calls) :
          result.p.calls[i].tok.k \in NumberKinds
             => Cardinality(PunctuationIn(result.p.calls[i].tok.v)) <= 1

(* C17: read_number accepts digits and any number of `.` or `,` each of    *)
(* which is directly followed by a digit: in the slice of a Number,        *)
(* NumberWithDot or NumberWithComma token every `.` or `,` stands between  *)
(* two digits, so the slice is not empty, begins and ends with a digit and *)
(* holds no two punctuation characters in a row.                           *)
PunctuationBetweenDigits ==
    pc # "start" =>
       \A i \in 1..Len(result.p.calls) :
          result.p.calls[i].tok.k \in NumberKinds
             => /\ result.p.calls[i].tok.v # <<>>
                /\ \A j \in 1..Len(result.p.calls[i].tok.v) :
                      \/ result.p.calls[i].tok.v[j] \in Digits
                      \/ /\ result.p.calls[i].tok.v[j] \in {".", ","}
                         /\ 1 < j /\ j < Len(result.p.calls[i].tok.v)
                         /\ result.p.calls[i].tok.v[j - 1] \in Digits
                         /\ result.p.calls[i].tok.v[j + 1] \in Digits

(* `1.2,1` is one Number token with two punctuation characters.            *)
TwoPunctuationsInNumber ==
    /\ pc = "done"
    /\ input = <<"1", ".", "2", ",", "1">>
    /\ result.ok
    /\ result.p.calls[1].tok.k = "Number"
    /\ result.p.calls[1].tok.v = <<"1", ".", "2", ",", "1">>

----------------------------------------------------------------------------
(* Text groups: `\begin{` followed by a body.  The Token::Begin arm reads  *)
(* the name with parse_text_group and, the name being none it knows,       *)
(* returns it in UnknownEnvironment.                                       *)

TextFrags == {<<"a">>, <<"{">>, <<"}">>, <<"\\", "{">>, <<"\\", "}">>, <<"\\", "a">>,
              <<"\\">>, <<NUL>>}

TextOpening == Cmd(Chars.begin) \o <<"{">>

InitText ==
    InitWith({opening \o body : opening \in {TextOpening, <<>>},
                                body \in Strings(TextFrags, MaxFrags)})

SpecText == InitText /\ [][Next]_vars

(* The index of the first `}` of s at or behind i that no inner unescaped  *)
(* `{` balances, `\{` and `\}` not counting; NotFound if s ends first or a *)
(* backslash is followed by anything else.                                 *)
RECURSIVE ClosingBrace(_, _, _)
ClosingBrace(s, i, depth) ==
    IF i >= Len(s) THEN NotFound
    ELSE IF s[i + 1] = "\\"
    THEN IF i + 1 < Len(s) /\ s[i + 2] \in {"{", "}"}
         THEN ClosingBrace(s, i + 2, depth)
         ELSE NotFound
    ELSE IF s[i + 1] = "{" THEN ClosingBrace(s, i + 1, depth + 1)
    ELSE IF s[i + 1] = "}"
    THEN IF depth = 0 THEN i ELSE ClosingBrace(s, i + 1, depth - 1)
    ELSE ClosingBrace(s, i + 1, depth)

(* C18: read_text_content, called behind an opening `{`, returns the slice *)
(* up to the first `}` not balanced by an inner unescaped `{` and leaves   *)
(* the lexer directly behind that `}` (the next token is read from there); *)
(* `\{` and `\}` are not counted; it returns None, which parse_text_group  *)
(* reports as UnclosedGroup, if the input ends first or a backslash is     *)
(* followed by anything but `{` or `}`.                                    *)
TextContentRead ==
    (pc # "start" /\ IsPrefix(TextOpening, input)) =>
       IF ClosingBrace(input, Len(TextOpening), 0) = NotFound
       THEN ~result.ok /\ result.err = UnclosedGroup("GroupEnd")
       ELSE /\ ~result.ok
            /\ result.err =
                 UnknownEnvironment(Slice(input, Len(TextOpening),
                                          ClosingBrace(input, Len(TextOpening), 0)))
            /\ result.p.calls[3].pos = ClosingBrace(input, Len(TextOpening), 0) + 1

(* `\begin{a`, U+0000, `}`: the group is closed but reported as unclosed.  *)
NulInTextGroup ==
    /\ pc = "failed"
    /\ input = TextOpening \o <<"a", NUL, "}">>
    /\ result.err = UnclosedGroup("GroupEnd")

----------------------------------------------------------------------------
(* The lexer on its own: a caller that owns a Lexer sets the public flag   *)
(* text_mode and calls next_token until EOF, passing wants_digit as the    *)
(* parser does (Parser::next_token).  result holds the lexer and the log   *)
(* of the calls: the token, the index of peek before and after the call.   *)

LexFrags == {<<" ">>, <<"\t">>, <<" ", "\t">>, <<"x">>, <<"1", "2">>, <<"{">>, Cmd(Chars.alpha),
             Cmd(Chars.sqrt)}

InitLexer ==
    /\ input \in Strings(LexFrags, MaxFrags)
    /\ pc = "lexing"
    /\ result \in {[l |-> [NewLexer(input) EXCEPT !.text_mode = mode], toks |-> <<>>] :
                      mode \in BOOLEAN}
    /\ display = "Inline"
    /\ pretty = FALSE
    /\ output = <<>>

(* One call of Lexer::next_token.                                          *)
NextToken ==
    /\ pc = "lexing"
    /\ \E r \in {Lexer_next_token(result.l,
                    result.toks # <<>>
                    /\ acts_on_a_digit(result.toks[Len(result.toks)].tok))} :
          /\ result' = [l |-> r.l,
                        toks |-> Append(result.toks, [tok |-> r.tok, pos |-> result.l.pos,
                                                      after |-> r.l.pos])]
          /\ pc' = IF r.tok.k = "EOF" THEN "lexed" ELSE "lexing"
    /\ UNCHANGED <<input, display, pretty, output>>

NextLexer == NextToken

SpecLexer == InitLexer /\ [][NextLexer]_vars

SpaceIsNbspLetter ==
    \A i \in 1..Len(result.toks) :
       (~result.l.text_mode /\ CodePointAt(input, result.toks[i].pos) = " ")
          => /\ result.toks[i].tok.k = "Letter"
             /\ result.toks[i].tok.v = <<"U+00A0">>

(* C20: in math mode a space in the input, like any other ASCII            *)
(* whitespace, is skipped by next_token and gives no token: the token      *)
(* returned is the one that starts at the first code point behind the      *)
(* whitespace, and it is neither Letter(U+00A0) nor Whitespace.            *)
SpaceSkippedInMathMode ==
    \A i \in 1..Len(result.toks) :
       ~result.l.text_mode
          => /\ result.toks[i].tok.loc = AfterWhitespace(input, result.toks[i].pos)
             /\ result.toks[i].after > AfterWhitespace(input, result.toks[i].pos)
                   \/ result.toks[i].tok.k = "EOF"
             /\ result.toks[i].tok.v # <<"U+00A0">>
             /\ result.toks[i].tok.k # "Whitespace"

(* `x x` in math mode: two letters and EOF, nothing for the space.         *)
SpaceGaveNoToken ==
    /\ pc = "lexed"
    /\ ~result.l.text_mode
    /\ input = <<"x", " ", "x">>
    /\ Len(result.toks) = 3
    /\ result.toks[1].tok = Tok("Letter", <<"x">>, 0)
    /\ result.toks[2].tok = Tok("Letter", <<"x">>, 2)
    /\ result.toks[3].tok.k = "EOF"

----------------------------------------------------------------------------
(* Font commands over whole arguments: a font command followed by one      *)
(* argument and nothing else, so that the first node of the result is the  *)
(* node the font command returned.                                         *)

FontCommands == {Chars.mathrm, Chars.mathbf, Chars.mathit}

RowArgs == {<<"x">>, <<"{", "x", "y", "}">>, <<"{", "x", "+", "y", "}">>,
            <<"{", "{", "x", "y", "}", "z", "}">>, <<"{", "x", "{", "y", "+", "}", "}">>,
            <<"{", "x">>}

DeepArgs == {<<"{", "x", "^", "a", "}">>, <<"{", "x", "_", "a", "y", "}">>,
             <<"{">> \o Cmd(Chars.sqrt) \o <<" ", "x", "}">>,
             <<"{">> \o Cmd(Chars.tfrac) \o <<" ", "x", "y", "}">>,
             <<"{", "x", "+", "y", "^", "+", "}">>}

FontInputs == {Cmd(c) \o arg : c \in FontCommands, arg \in RowArgs \cup DeepArgs}

InitSubtree == InitWith(FontInputs)

SpecSubtree == InitSubtree /\ [][Next]_vars

(* All nodes reachable from a tree through child references and lists.     *)
RECURSIVE Reachable(_)
Reachable(tree) ==
    {tree} \cup UNION {Reachable(tree.kids[i]) : i \in 1..Len(tree.kids)}
           \cup UNION {Reachable(tree.items[i]) : i \in 1..Len(tree.items)}

FontCommandOf(s) == CHOOSE c \in FontCommands : IsPrefix(Cmd(c), s)

(* No letter or operator is left as it was written: every identifier holds *)
(* images under the transform and no Operator node remains.                *)
TransformedEverywhere(tree) ==
    \A n \in Reachable(tree) :
       /\ n.t # "Operator"
       /\ n.t = "SingleLetterIdent" => n.s[1] \notin LowerAlpha \cup UpperAlpha
       /\ n.t = "MultiLetterIdent"
             => \A i \in 1..Len(n.str) : n.str[i] \notin LowerAlpha \cup UpperAlpha

NormalEverywhere(tree) ==
    \A n \in Reachable(tree) : n.t = "SingleLetterIdent" => n.attr = <<"Normal">>

(* C21: a font command rewrites its whole argument subtree: behind         *)
(* `\mathrm` every SingleLetterIdent reachable from the argument node has  *)
(* the variant Normal, behind a transform the character of every letter    *)
(* and operator reachable from it is its image under the transform --      *)
(* through any chain of child references, not only direct children.        *)
FontRewritesSubtree ==
    (pc # "start" /\ result.ok) =>
       IF FontCommandOf(input) = Chars.mathrm
       THEN NormalEverywhere(Ast(result).items[1])
       ELSE TransformedEverywhere(Ast(result).items[1])

(* `\mathbf{x^a}`: the group is the single node Superscript, which is no   *)
(* Row, and both letters stay as they were written.                        *)
ScriptedLetterKeptPlain ==
    /\ pc = "done"
    /\ input = Cmd(Chars.mathbf) \o <<"{", "x", "^", "a", "}">>
    /\ Ast(result).items[1].t = "Superscript"
    /\ Ast(result).items[1].kids[1].t = "SingleLetterIdent"
    /\ Ast(result).items[1].kids[1].s = <<"x">>

----------------------------------------------------------------------------
(* Fusion of single letters: a font command followed by a braced body.     *)
(* The arena before merge_single_letters is the one the parse of the       *)
(* braced body alone leaves (a font token allocates no node); a transform  *)
(* has rewritten the letters before the fusion, `\mathrm` sets the variant *)
(* behind it.                                                              *)

MergeFrags == {<<"x">>, <<"y">>, <<"1">>, <<"+">>, <<"^">>, <<"{", "x", "y", "}">>}

Braced(body) == <<"{">> \o body \o <<"}">>

MergeInputs ==
    {Cmd(c) \o Braced(body) : c \in FontCommands, body \in Strings(MergeFrags, MaxFrags)}

InitMerge == InitWith(MergeInputs)

SpecMerge == InitMerge /\ [][Next]_vars

(* The parse of the braced body alone; the reference of its node is the   *)
(* head of the list of the root.                                           *)
BodyParse(s) == get_nodes(SubSeq(s, Len(Cmd(FontCommandOf(s))) + 1, Len(s)))

(* The arena merge_single_letters is called with.                          *)
ArenaBefore(s, body) ==
    IF FontCommandOf(s) = Chars.mathrm THEN body.p.arena
    ELSE transform_letters(body.p.arena, body.v.list.head,
                           from_command(FontCommandOf(s), 0).v[1])

IsLetterAt(before, refs, i) ==
    i >= 1 /\ i <= Len(refs) /\ Arena_get(before, refs[i]).t = "SingleLetterIdent"

(* The last index of the run of letters that starts at index i.            *)
RECURSIVE RunEnd(_, _, _)
RunEnd(before, refs, i) ==
    IF IsLetterAt(before, refs, i + 1) THEN RunEnd(before, refs, i + 1) ELSE i

(* The references the output list holds: the first of every run of         *)
(* letters and every child that is no letter.                              *)
RECURSIVE KeptRefs(_, _, _)
KeptRefs(before, refs, i) ==
    IF i > Len(refs) THEN <<>>
    ELSE IF IsLetterAt(before, refs, i)
    THEN <<refs[i]>> \o KeptRefs(before, refs, RunEnd(before, refs, i) + 1)
    ELSE <<refs[i]>> \o KeptRefs(before, refs, i + 1)

RunChars(before, refs, i, j) ==
    [k \in 1..(j - i + 1) |-> Arena_get(before, refs[i + k - 1]).s[1]]

(* The list merge_single_letters left: the font command's node is the      *)
(* first node of the result; squeeze returned the only node of a list of   *)
(* one and a new Row otherwise.                                            *)
MergedRefs(before) ==
    IF Arena_get(result.p.arena, result.v.list.head).t = "Row"
       /\ result.v.list.head >= Len(before)
    THEN NodeList_iter(result.p.arena, Arena_get(result.p.arena, result.v.list.head).list)
    ELSE <<result.v.list.head>>

CellAfter(ref) == Arena_get(result.p.arena, ref)

FusedAt(before, refs, i) ==
    CASE IsLetterAt(before, refs, i) /\ ~IsLetterAt(before, refs, i - 1)
         /\ IsLetterAt(before, refs, i + 1) ->
            /\ CellAfter(refs[i]).t = "MultiLetterIdent"
            /\ Slice(result.p.buffer, CellAfter(refs[i]).sref[1], CellAfter(refs[i]).sref[2])
                 = RunChars(before, refs, i, RunEnd(before, refs, i))
      [] IsLetterAt(before, refs, i) /\ ~IsLetterAt(before, refs, i - 1) ->
            CellAfter(refs[i]) =
               IF FontCommandOf(input) = Chars.mathrm
               THEN [Arena_get(before, refs[i]) EXCEPT !.attr = <<"Normal">>]
               ELSE Arena_get(before, refs[i])
      [] IsLetterAt(before, refs, i) -> TRUE
      [] OTHER -> CellAfter(refs[i]) = Arena_get(before, refs[i])

FusedList(before, refs, merged) ==
    /\ merged = KeptRefs(before, refs, 1)
    /\ \A i \in 1..Len(merged) : \A j \in 1..Len(merged) : merged[i] = merged[j] => i = j
    /\ merged # <<>> => result.p.arena[merged[Len(merged)] + 1].next = NoRef
    /\ \A i \in 1..Len(refs) : FusedAt(before, refs, i)

(* C22: merge_single_letters on the Row argument of a font command: every  *)
(* maximal run of two or more adjacent SingleLetterIdent children becomes  *)
(* one MultiLetterIdent, whose slice of the buffer is the run's characters *)
(* in order, in the cell of the run's first letter, the other cells of the *)
(* run being linked no more; a run of one letter and every other child     *)
(* stay as they are, in their order; the list is a chain without cycle     *)
(* whose last cell has no successor.                                       *)
LettersFused ==
    (pc = "parsed" /\ result.ok) =>
       Let(BodyParse(input), LAMBDA body :
       Let(ArenaBefore(input, body), LAMBDA before :
          Arena_get(before, body.v.list.head).t = "Row" =>
             FusedList(before,
                       NodeList_iter(before, Arena_get(before, body.v.list.head).list),
                       MergedRefs(before))))

(* `\mathrm{+xy}`: the operator stays, x and y become one identifier in    *)
(* the cell of x.                                                          *)
TwoLettersFused ==
    /\ pc = "done"
    /\ input = Cmd(Chars.mathrm) \o <<"{", "+", "x", "y", "}">>
    /\ Len(Ast(result).items[1].items) = 2
    /\ Ast(result).items[1].items[1].t = "Operator"
    /\ Ast(result).items[1].items[2].t = "MultiLetterIdent"
    /\ Ast(result).items[1].items[2].str = <<"x", "y">>

----------------------------------------------------------------------------
(* The arena, its node lists and the buffer on their own (arena.rs), as a  *)
(* caller like the tests of arena.rs uses them: two lists over one arena,  *)
(* pushes to the arena and to the lists in any order, nodes overwritten    *)
(* through get_mut, strings appended to the buffer.  result holds the      *)
(* arena, the lists, the buffer and the log of what was pushed: for a cell *)
(* the list it was pushed to (0 for Arena::push), the node, the reference  *)
(* and whether it was overwritten since; for a string the operation that   *)
(* appended it, the reference returned and the text.                       *)

MaxCells == 3

MaxBufLen == 5

TestNodes == {Leaf("Space", <<"a">>, <<>>), Leaf("Space", <<"b">>, <<>>)}

TestStrings == {<<>>, <<"a">>, <<"b", "c">>, <<"d", "e", "f">>}

InitArena ==
    /\ input = <<>>
    /\ pc = "arena"
    /\ result = [arena |-> <<>>, lists |-> <<NoList, NoList>>, buffer |-> <<>>,
                 log |-> <<>>, strs |-> <<>>]
    /\ display = "Inline"
    /\ pretty = FALSE
    /\ output = <<>>

(* arena.push(node) *)
ArenaPush ==
    /\ pc = "arena"
    /\ Len(result.arena) < MaxCells
    /\ \E node \in TestNodes :
          \E a \in {Arena_push(result.arena, node)} :
             result' = [result EXCEPT !.arena = a.arena,
                           !.log = Append(@, [list |-> 0, node |-> node, ref |-> a.ref,
                                              set |-> FALSE])]
    /\ UNCHANGED <<input, pc, display, pretty, output>>

(* list.push(&mut arena, node) *)
ListPush ==
    /\ pc = "arena"
    /\ Len(result.arena) < MaxCells
    /\ \E i \in {1, 2}, node \in TestNodes :
          \E pr \in {NodeList_push(result.lists[i], result.arena, node)} :
             result' = [result EXCEPT !.arena = pr.arena, !.lists[i] = pr.list,
                           !.log = Append(@, [list |-> i, node |-> node,
                                              ref |-> pr.list.tail, set |-> FALSE])]
    /\ UNCHANGED <<input, pc, display, pretty, output>>

(* *arena.get_mut(reference) = node, for a reference the arena returned.   *)
ArenaGetMut ==
    /\ pc = "arena"
    /\ \E k \in 1..Len(result.log), node \in TestNodes :
          /\ ~result.log[k].set
          /\ result' = [result EXCEPT
                           !.arena = Arena_set(result.arena, result.log[k].ref, node),
                           !.log[k].set = TRUE]
    /\ UNCHANGED <<input, pc, display, pretty, output>>

NextArena == ArenaPush \/ ListPush \/ ArenaGetMut

SpecArena == InitArena /\ [][NextArena]_vars

(* buffer.push_str(string)                                                 *)
BufferPushStr ==
    /\ pc = "arena"
    /\ \E string \in TestStrings :
          /\ Len(result.buffer) + Len(string) <= MaxBufLen
          /\ \E b \in {Buffer_push_str(result.buffer, string)} :
                result' = [result EXCEPT !.buffer = b.buffer,
                              !.strs = Append(@, [op |-> "push_str", ref |-> b.ref, text |-> string])]
    /\ Len(result.strs) < MaxBufLen + 1
    /\ UNCHANGED <<input, pc, display, pretty, output>>

(* Buffer::extend: the characters of the iterator are appended.            *)
Buffer_extend(buffer, iter) ==
    [buffer |-> buffer \o iter, ref |-> <<Len(buffer), Len(buffer \o iter)>>]

(* buffer.extend(string.chars())                                           *)
BufferExtend ==
    /\ pc = "arena"
    /\ \E string \in TestStrings :
          /\ Len(result.buffer) + Len(string) <= MaxBufLen
          /\ \E b \in {Buffer_extend(result.buffer, string)} :
                result' = [result EXCEPT !.buffer = b.buffer,
                              !.strs = Append(@, [op |-> "extend", ref |-> b.ref, text |-> string])]
    /\ Len(result.strs) < MaxBufLen + 1
    /\ UNCHANGED <<input, pc, display, pretty, output>>

NextBuffer == BufferPushStr \/ BufferExtend

SpecBuffer == InitArena /\ [][NextBuffer]_vars

(* Buffer::get_str *)
Buffer_get_str(buffer, reference) == Slice(buffer, reference[1], reference[2])

(* The references of the cells pushed to list i, in the order of pushing.  *)
RECURSIVE PushedTo(_, _)
PushedTo(log, i) ==
    IF log = <<>> THEN <<>>
    ELSE (IF Head(log).list = i THEN <<Head(log).ref>> ELSE <<>>) \o PushedTo(Tail(log), i)

(* C23: after any sequence of NodeList::push calls, iterating a list gives *)
(* exactly the nodes pushed to it, in the order of pushing, and then None: *)
(* the chain from head follows next to tail without a cycle and the next   *)
(* of tail is none; is_empty holds iff nothing was pushed, and             *)
(* is_singleton is Some iff exactly one node was pushed.                   *)
ListIsChain ==
    \A i \in {1, 2} :
       /\ NodeList_iter(result.arena, result.lists[i]) = PushedTo(result.log, i)
       /\ \A k \in 1..Len(result.log) :
             (result.log[k].list = i /\ ~result.log[k].set)
                => Arena_get(result.arena, result.log[k].ref) = result.log[k].node
       /\ ~is_empty(result.lists[i])
             => /\ result.arena[result.lists[i].tail + 1].next = NoRef
                /\ result.lists[i].tail =
                      PushedTo(result.log, i)[Len(PushedTo(result.log, i))]
       /\ is_empty(result.lists[i]) <=> PushedTo(result.log, i) = <<>>
       /\ is_singleton(result.lists[i]) # NoRef <=> Len(PushedTo(result.log, i)) = 1

(* Two nodes pushed to the first list and one to the second in between.    *)
ListOfTwoInterleaved ==
    /\ Len(result.log) = 3
    /\ result.log[1].list = 1 /\ result.log[2].list = 2 /\ result.log[3].list = 1
    /\ NodeList_iter(result.arena, result.lists[1]) = <<0, 2>>
    /\ NodeList_iter(result.arena, result.lists[2]) = <<1>>

(* C24: Arena::push returns the index of the new cell and no cell is moved *)
(* or removed: every reference the arena returned, and every reference     *)
(* kept in a list or a next link, is less than the size of the arena at    *)
(* all later times, and get returns the node pushed unless it was          *)
(* overwritten through get_mut.                                            *)
ReferencesInBounds ==
    /\ Len(result.log) = Len(result.arena)
    /\ \A k \in 1..Len(result.log) :
          /\ result.log[k].ref = k - 1
          /\ result.log[k].ref < Len(result.arena)
          /\ ~result.log[k].set
                => Arena_get(result.arena, result.log[k].ref) = result.log[k].node
    /\ \A k \in 1..Len(result.arena) :
          result.arena[k].next = NoRef
          \/ (0 <= result.arena[k].next /\ result.arena[k].next < Len(result.arena))
    /\ \A i \in {1, 2} :
          ~is_empty(result.lists[i])
             => /\ 0 <= result.lists[i].head /\ result.lists[i].head < Len(result.arena)
                /\ 0 <= result.lists[i].tail /\ result.lists[i].tail < Len(result.arena)

(* A full arena: the first cell was overwritten, the last one still holds  *)
(* the node pushed.                                                        *)
OverwrittenAndKept ==
    /\ Len(result.arena) = MaxCells
    /\ result.log[1].set
    /\ Arena_get(result.arena, 0) # result.log[1].node
    /\ ~result.log[MaxCells].set
    /\ Arena_get(result.arena, MaxCells - 1) = result.log[MaxCells].node

(* C25: the buffer only grows at its end: extend and push_str return the   *)
(* reference (length before, length after), get_str of it is the text      *)
(* appended, both bounds are at most the length of the buffer at all later *)
(* times, and the text of a reference returned earlier is not changed by   *)
(* a later append.                                                         *)
BufferAppendOnly ==
    \A k \in 1..Len(result.strs) :
       /\ result.strs[k].ref[1] =
             (IF k = 1 THEN 0 ELSE result.strs[k - 1].ref[2])
       /\ result.strs[k].ref[2] = result.strs[k].ref[1] + Len(result.strs[k].text)
       /\ result.strs[k].ref[2] <= Len(result.buffer)
       /\ Buffer_get_str(result.buffer, result.strs[k].ref) = result.strs[k].text

(* `a` and `bc` appended: the first reference still reads `a`.             *)
EarlierTextKept ==
    /\ Len(result.strs) = 2
    /\ result.strs[1].text = <<"a">>
    /\ result.strs[2].text = <<"b", "c">>
    /\ Buffer_get_str(result.buffer, result.strs[1].ref) = <<"a">>
    /\ result.strs[2].ref = <<1, 3>>

----------------------------------------------------------------------------
(* Termination: every conversion ends with a result or an error.  The log  *)
(* of the lexer calls shows the progress: each call leaves the lexer where *)
(* the next one finds it.                                                  *)

ProgressFrags == {<<"x">>, <<"1", "2">>, <<"^">>, <<"_">>, <<"'">>, <<"{">>, <<"}">>,
                  <<" ", "x">>, Cmd(Chars.sqrt), Cmd(Chars.frac), Cmd(Chars.slashed),
                  Cmd(Chars.left) \o <<"(">>, Cmd(Chars.right) \o <<")">>,
                  Cmd(Chars.sum)}

InitProgress == InitWith(Strings(ProgressFrags, MaxFrags))

SpecProgress == InitProgress /\ [][Next]_vars

(* The lexer calls made at the end of the input.                           *)
CallsAtEnd == {i \in 1..Len(result.p.calls) : result.p.calls[i].pos = Len(input)}

(* The lexer calls that gave a \slashed token: its arm skips the token     *)
(* before and the token behind its argument without looking at them.       *)
SlashedCalls == {i \in 1..Len(result.p.calls) : result.p.calls[i].tok.k = "Slashed"}

(* C26: for every finite input Parser::parse ends with Ok or Err: each     *)
(* lexer call before the end of the input consumes at least one code       *)
(* point, at the end of the input the lexer stays where it is and gives    *)
(* EOF, and EOF ends every loop of the parser: once EOF is peeked at most  *)
(* one more token is asked for, apart from the two tokens each \slashed    *)
(* skips, and a parse that succeeds has read EOF last.                     *)
LexerProgress ==
    pc # "start" =>
       /\ result.ok \/ result.err.e # "None"
       /\ \A i \in 1..Len(result.p.calls) :
             /\ result.p.calls[i].pos = (IF i = 1 THEN 0 ELSE result.p.calls[i - 1].after)
             /\ result.p.calls[i].after <= Len(input)
             /\ result.p.calls[i].pos < Len(input)
                   => result.p.calls[i].after > result.p.calls[i].pos
             /\ result.p.calls[i].pos = Len(input) => result.p.calls[i].tok.k = "EOF"
       /\ Cardinality(CallsAtEnd) <= 2 + 2 * Cardinality(SlashedCalls)
       /\ result.ok => result.p.calls[Len(result.p.calls)].tok.k = "EOF"

(* `\frac x{`: the group is not closed and the parse ends with an error   *)
(* at the end of the input.                                                *)
EndedAtEndOfInput ==
    /\ pc = "failed"
    /\ input = Cmd(Chars.frac) \o <<" ", "x", "{">>
    /\ result.p.calls[Len(result.p.calls)].pos = Len(input)
    /\ result.p.calls[Len(result.p.calls)].tok.k = "EOF"

----------------------------------------------------------------------------
(* Termination of the scanning loop of replace.  Replacer::new takes any   *)
(* four strings as delimiters, the empty string included, which the Finder *)
(* finds at offset 0 of every text.                                        *)

DelimiterChoices == {<<>>, <<"$">>, <<"$", "$">>}

LoopFrags == {<<"a">>, <<"^">>, <<"$">>, <<"$", "$">>}

InitLoop ==
    /\ input \in {[doc |-> d, inline_delim |-> <<io, ic>>, block_delim |-> <<bo, bc>>] :
                     d \in Strings(LoopFrags, MaxDocFrags),
                     io \in DelimiterChoices, ic \in DelimiterChoices,
                     bo \in DelimiterChoices, bc \in DelimiterChoices}
    /\ pc = "start"
    /\ result = NoResult
    /\ display = "Inline"
    /\ pretty = FALSE
    /\ output = <<>>

SpecLoop == InitLoop /\ [][NextReplace]_vars

ConversionErrors ==
    {"UnclosedDelimiter", "MismatchedDelimiters", "NestedDelimiters", "LatexError"}

(* current_pos at the beginning of iteration i of the loop.                *)
PosBefore(calls, i) == IF i = 1 THEN 0 ELSE calls[i - 1].next

(* C27: every iteration of the scanning loop of replace returns or         *)
(* strictly increases current_pos, whatever delimiters the Replacer was    *)
(* built with: replace ends with Ok or one of the four errors, every       *)
(* iteration that went through left current_pos greater than it found it   *)
(* and within the document, an error is met within the document, and there *)
(* are no more iterations than the document has code points.               *)
ReplaceProgress ==
    pc = "replaced" =>
       /\ result.ok \/ result.err \in ConversionErrors
       /\ \A i \in 1..Len(result.calls) :
             /\ PosBefore(result.calls, i) < result.calls[i].next
             /\ PosBefore(result.calls, i) <= result.calls[i].start
             /\ result.calls[i].start <= result.calls[i].next
             /\ result.calls[i].next <= Len(input.doc)
       /\ Len(result.calls) <= Len(input.doc)
       /\ ~result.ok => result.at <= Len(input.doc)

(* `$a$b` with the inline delimiters `$` and the empty string: each `$`    *)
(* opens an island that closes at once, and current_pos moves behind it.   *)
EmptyClosingDelimiter ==
    /\ pc = "replaced"
    /\ input.doc = <<"$", "a", "$", "^">>
    /\ input.inline_delim = <<<<"$">>, <<>>>>
    /\ input.block_delim = <<<<"$", "$">>, <<"$", "$">>>>
    /\ result.ok
    /\ Len(result.calls) = 2
    /\ result.calls[2].content = <<>>
    /\ result.calls[2].next = 3

----------------------------------------------------------------------------
(* Groups left open at the end of the input.                               *)

(* The number of `{` of s that no later `}` closes; a `}` that closes      *)
(* nothing is not counted.                                                 *)
RECURSIVE OpenGroups(_, _, _)
OpenGroups(s, i, depth) ==
    IF i > Len(s) THEN depth
    ELSE IF s[i] = "{" THEN OpenGroups(s, i + 1, depth + 1)
    ELSE IF s[i] = "}" /\ depth > 0 THEN OpenGroups(s, i + 1, depth - 1)
    ELSE OpenGroups(s, i + 1, depth)

(* C28: parse returns Ok only if every `{` of the input has been closed by *)
(* a matching `}`: an input that ends inside an open `{` group is always   *)
(* rejected, whatever command precedes the group.                          *)
OpenGroupRejected ==
    pc # "start" => (OpenGroups(input, 1, 0) > 0 => ~result.ok)

(* What the code does with `\slashed{x`: the `{` and the end of the input  *)
(* are both skipped unseen, and the parse succeeds.                        *)
OpenGroupAccepted ==
    /\ pc = "done"
    /\ input = Cmd(Chars.slashed) \o <<"{", "x">>
    /\ OpenGroups(input, 1, 0) = 1
    /\ Len(Ast(result).items) = 1
    /\ Ast(result).items[1].t = "Slashed"
    /\ Ast(result).items[1].kids = <<NodeOf(<<"x">>)>>

----------------------------------------------------------------------------
(* TextTransform::DoubleStruck on code points (attribute.rs).  Here the    *)
(* input is one code point, a number.                                      *)

(* The transform! macro: the first range (lo, hi, offset) that holds c     *)
(* moves it by its offset, else the first pair (index, target) for c gives *)
(* its target, else c is returned as it is.                                *)
RECURSIVE TransformMacro(_, _, _)
TransformMacro(c, ranges, pairs) ==
    IF ranges # <<>>
    THEN IF Head(ranges)[1] <= c /\ c <= Head(ranges)[2]
         THEN c + Head(ranges)[3]
         ELSE TransformMacro(c, Tail(ranges), pairs)
    ELSE IF pairs # <<>>
    THEN IF c = Head(pairs)[1] THEN Head(pairs)[2]
         ELSE TransformMacro(c, <<>>, Tail(pairs))
    ELSE c

(* The arm TextTransform::DoubleStruck: 'A'..='B', 'D'..='G', 'I'..='M'    *)
(* and 'S'..='Y' by 0x1D4F7, 'P'..='Q' by 0x20C9, 'a'..='z' by 0x1D4F1,    *)
(* '0'..='9' by 0x1D7A8; C, H, N, R, Z to U+2102, U+210D, U+2115, U+211D   *)
(* and U+2124.                                                             *)
DoubleStruck(c) ==
    TransformMacro(c,
        <<<<65, 66, 120055>>, <<68, 71, 120055>>, <<73, 77, 120055>>, <<80, 81, 8393>>,
          <<83, 89, 120055>>, <<97, 122, 120049>>, <<48, 57, 120744>>>>,
        <<<<67, 8450>>, <<72, 8461>>, <<78, 8469>>, <<82, 8477>>, <<90, 8484>>>>)

MaxCodePoint == 127

InitDoubleStruck ==
    /\ input \in 0..MaxCodePoint
    /\ pc = "start"
    /\ result = NoResult
    /\ display = "Inline"
    /\ pretty = FALSE
    /\ output = <<>>

(* tf.transform(c) for tf = TextTransform::DoubleStruck                    *)
ApplyDoubleStruck ==
    /\ pc = "start"
    /\ result' = DoubleStruck(input)
    /\ pc' = "transformed"
    /\ UNCHANGED <<input, display, pretty, output>>

NextDoubleStruck == ApplyDoubleStruck

SpecDoubleStruck == InitDoubleStruck /\ [][NextDoubleStruck]_vars

(* A..Z, a..z and 0..9 *)
AsciiAlphanumeric == (65..90) \cup (97..122) \cup (48..57)

(* C29: DoubleStruck maps every ASCII letter and every digit to a code     *)
(* point different from the input, R to U+211D, and distinct inputs to     *)
(* distinct outputs.                                                       *)
DoubleStruckTable ==
    (pc = "transformed" /\ input \in AsciiAlphanumeric) =>
       /\ result # input
       /\ input = 82 => result = 8477
       /\ \A d \in AsciiAlphanumeric : d # input => DoubleStruck(d) # result

(* The letter O is in none of the ranges and has no pair: it comes back    *)
(* unchanged.                                                              *)
LetterOUnchanged ==
    /\ pc = "transformed"
    /\ input = 79
    /\ result = 79

----------------------------------------------------------------------------
(* The two arguments of `\frac` and `\binom` written as bare digits.       *)

FracFrags == {Cmd(Chars.frac), Cmd(Chars.binom), <<"1">>, <<"2", "3">>, <<"3">>, <<" ">>,
              <<"x">>, <<"{", "2", "}">>}

InitFrac == InitWith(Strings(FracFrags, MaxFrags))

SpecFrac == InitFrac /\ [][Next]_vars

FracNames == {Chars.frac, Chars.tfrac, Chars.dfrac, Chars.binom}

(* The source with braces put around the digit that follows a `\frac` or   *)
(* `\binom` and around the digit that follows that one (i is a 1-based     *)
(* index).                                                                 *)
RECURSIVE BraceBothDigits(_, _)
BraceBothDigits(s, i) ==
    IF i > Len(s) THEN <<>>
    ELSE IF s[i] # "\\" THEN <<s[i]>> \o BraceBothDigits(s, i + 1)
    ELSE LET rc == read_command([src |-> s, pos |-> i, text_mode |-> FALSE])
             k == AfterWhitespace(s, rc.l.pos)
             k2 == AfterWhitespace(s, k + 1)
         IN IF rc.name \in FracNames /\ CodePointAt(s, k) \in Digits
            THEN IF CodePointAt(s, k2) \in Digits
                 THEN SubSeq(s, i, rc.l.pos) \o <<"{", s[k + 1], "}", "{", s[k2 + 1], "}">>
                      \o BraceBothDigits(s, k2 + 2)
                 ELSE SubSeq(s, i, rc.l.pos) \o <<"{", s[k + 1], "}">>
                      \o BraceBothDigits(s, k + 2)
            ELSE SubSeq(s, i, rc.l.pos) \o BraceBothDigits(s, rc.l.pos + 1)

(* C30: digit-grabbing applies to each argument of `\frac` and `\binom`:   *)
(* written as bare digits each argument is exactly one digit, so the tree  *)
(* is the one of the source with each of the two digits in braces, and     *)
(* `\frac123` parses as `\frac{1}{2}3`: numerator 1, denominator 2, then   *)
(* the number 3.                                                           *)
FracGrabsTwoDigits ==
    pc # "start" =>
      /\ LET braced == get_nodes(BraceBothDigits(input, 1))
         IN braced.ok = result.ok /\ Ast(braced) = Ast(result)
      /\ input = Cmd(Chars.frac) \o <<"1", "2", "3">> =>
            /\ result.ok
            /\ Len(Ast(result).items) = 2
            /\ Ast(result).items[1].t = "Frac"
            /\ Ast(result).items[1].kids = <<NumberLeafTree(<<"1">>), NumberLeafTree(<<"2">>)>>
            /\ Ast(result).items[2] = NumberLeafTree(<<"3">>)

(* What the code does with `\frac123`: the token before the second         *)
(* argument is the number 1, the lexer is not asked for a digit and reads  *)
(* 23 as the denominator.                                                  *)
DenominatorTookAllDigits ==
    /\ pc = "done"
    /\ input = Cmd(Chars.frac) \o <<"1", "2", "3">>
    /\ Len(Ast(result).items) = 1
    /\ Ast(result).items[1].t = "Frac"
    /\ Ast(result).items[1].kids = <<NumberLeafTree(<<"1">>), NumberLeafTree(<<"2", "3">>)>>
    /\ \E i \in 1..Len(result.p.calls) :
          /\ result.p.calls[i].prev.k = "Number"
          /\ ~result.p.calls[i].wants
          /\ result.p.calls[i].tok.v = <<"2", "3">>

====
